---------------------------- MODULE Spec2Model ----------------------------
(***************************************************************************)
(* A model of the CryptoMind analysis core (src/agent): the indicator      *)
(* calculators (indicators.py), the signal aggregator, the target          *)
(* calculator and the analysis orchestrator (analysis.py) and the          *)
(* multi-symbol scan (tools.py).                                           *)
(*                                                                         *)
(* Numbers.  In the indicator and target calculators Python floats are     *)
(* modelled as exact rationals <<n, d>> with d > 0 and gcd(n, d) = 1;      *)
(* int() is truncation toward zero and round(x,k) is round-half-even to k  *)
(* decimals.  The aggregator's scores are modelled as IEEE 754 doubles,    *)
(* bit for bit, because its comparisons and truncations sit on values      *)
(* that exact arithmetic puts on a boundary.  Integer results of the code  *)
(* (strength, confidence, counts) are TLA+ integers.                       *)
(*                                                                         *)
(* Python dicts are functions whose DOMAIN is the set of keys, so that     *)
(* d.get(k, default) and "k in d" are modelled by what they do.            *)
(***************************************************************************)
EXTENDS Integers, Sequences, FiniteSets, TLC

VARIABLES
    agg_in,      \* aggregate_signals: the indicator mapping passed in
    agg_order,   \* aggregate_signals: the order its weight table is iterated in
    agg_out,     \* aggregate_signals: the record returned, or None
    calc_candles, \* the candle series given to an indicator calculator
    calc,        \* the calculator called on it and what it returned, or None
    tgt_in,      \* calculate_trade_targets: its arguments
    tgt_out,     \* calculate_trade_targets: what it returned, or None
    pfa_pc,      \* perform_full_analysis: where the coroutine stands
    pfa_args,    \* perform_full_analysis: symbol and timeframe
    ohlcv_data,  \* perform_full_analysis: what fetch_ohlcv returned, or None
    stats_24h,   \* perform_full_analysis: what get_24h_stats returned, or None
    pfa_indicators,  \* perform_full_analysis: its local indicators, or None
    pfa_aggregation, \* perform_full_analysis: its local aggregation, or None
    pfa_targets,     \* perform_full_analysis: its local targets, or None
    pfa_steps,   \* the pipeline steps this invocation has begun, in order
    pfa_result,  \* perform_full_analysis: what it returned, or None
    scan_pc,     \* quick_market_scan: where the coroutine stands
    symbols,     \* quick_market_scan: the argument string
    symbol_list, \* quick_market_scan: the symbols its tasks were made for
    tasks,       \* one get_quick_analysis task per symbol: pc and result
    response,    \* quick_market_scan: the entries of the text returned, or None
    pure_alive,  \* the objects earlier calculator calls created and returned
    pure_calls,  \* the calculator calls made so far: arguments and results
    room,        \* tools.py: the module's _room, or None
    tool_pc,     \* analyze_trading_pair: where the coroutine stands
    tool_args,   \* analyze_trading_pair: symbol and timeframe
    tool_log,    \* what this call has done so far, in order
    tool_text    \* analyze_trading_pair: the text returned, or None

aggVars == <<agg_in, agg_order, agg_out>>

indVars == <<calc_candles, calc>>

tgtVars == <<tgt_in, tgt_out>>

pfaVars == <<pfa_pc, pfa_args, ohlcv_data, stats_24h, pfa_indicators,
             pfa_aggregation, pfa_targets, pfa_steps, pfa_result>>

scanVars == <<scan_pc, symbols, symbol_list, tasks, response>>

pureVars == <<pure_alive, pure_calls>>

toolVars == <<room, tool_pc, tool_args, tool_log, tool_text>>

vars == <<agg_in, agg_order, agg_out, calc_candles, calc, tgt_in, tgt_out,
          pfa_pc, pfa_args, ohlcv_data, stats_24h, pfa_indicators,
          pfa_aggregation, pfa_targets, pfa_steps, pfa_result,
          scan_pc, symbols, symbol_list, tasks, response,
          pure_alive, pure_calls,
          room, tool_pc, tool_args, tool_log, tool_text>>

None == [py_type |-> "NoneType"]

----------------------------------------------------------------------------
(* Exact rational arithmetic standing in for float arithmetic.             *)

RECURSIVE Gcd(_, _)
Gcd(a, b) == IF b = 0 THEN a ELSE Gcd(b, a % b)

IAbs(a) == IF a < 0 THEN -a ELSE a

Sign(a) == IF a < 0 THEN -1 ELSE IF a > 0 THEN 1 ELSE 0

\* The rational n/d in lowest terms, d # 0.
Q(n, d) ==
    LET g == Gcd(IAbs(n), IAbs(d))
    IN  IF d < 0 THEN <<-(n \div g), -(d \div g)>> ELSE <<n \div g, d \div g>>

I(n) == <<n, 1>>

QAdd(a, b) ==
    LET g == Gcd(a[2], b[2])
    IN  Q(a[1] * (b[2] \div g) + b[1] * (a[2] \div g), (a[2] \div g) * b[2])

QNeg(a) == <<-a[1], a[2]>>

QSub(a, b) == QAdd(a, QNeg(b))

QMul(a, b) ==
    LET g1 == Gcd(IAbs(a[1]), b[2])
        g2 == Gcd(IAbs(b[1]), a[2])
    IN  <<(a[1] \div g1) * (b[1] \div g2), (a[2] \div g2) * (b[2] \div g1)>>

\* a / b for b # 0 (the callers guard the zero divisor as the code does).
QDiv(a, b) == QMul(a, IF b[1] < 0 THEN <<-b[2], -b[1]>> ELSE <<b[2], b[1]>>)

QLt(a, b) ==
    LET g == Gcd(a[2], b[2])
    IN  a[1] * (b[2] \div g) < b[1] * (a[2] \div g)

QLe(a, b) == ~QLt(b, a)

QGt(a, b) == QLt(b, a)

QGe(a, b) == ~QLt(a, b)

QAbs(a) == <<IAbs(a[1]), a[2]>>

QMin(a, b) == IF QLt(b, a) THEN b ELSE a

QMax(a, b) == IF QLt(a, b) THEN b ELSE a

\* Python int(x): truncation toward zero.
Trunc(a) == Sign(a[1]) * (IAbs(a[1]) \div a[2])

\* floor(x)
Floor(a) == a[1] \div a[2]

Pow10(k) == CASE k = 0 -> 1 [] k = 1 -> 10 [] k = 2 -> 100
              [] k = 5 -> 100000 [] k = 6 -> 1000000

\* The first k decimal digits of n/d in [0, 1), as <<digits so far, what is
\* left of the numerator>>, by long division.
RECURSIVE RoundDigits(_, _, _, _)
RoundDigits(n, d, k, q) ==
    IF k = 0 THEN <<q, n>>
    ELSE RoundDigits((n * 10) % d, d, k - 1, q * 10 + (n * 10) \div d)

\* Python round(x, k): the nearest multiple of 10^-k, ties to even.
Round(a, k) ==
    LET p    == Pow10(k)
        w    == Floor(a)
        dg   == RoundDigits(a[1] - w * a[2], a[2], k, 0)  \* of a - w in [0, 1)
        f    == dg[1]
        up   == \/ 2 * dg[2] > a[2]
                \/ 2 * dg[2] = a[2] /\ (w * p + f) % 2 = 1
    IN  Q(w * p + f + (IF up THEN 1 ELSE 0), p)

IMin(a, b) == IF b < a THEN b ELSE a

IMax(a, b) == IF a < b THEN b ELSE a

----------------------------------------------------------------------------
(* IEEE 754 binary64 arithmetic, for the aggregator's scores, whose        *)
(* comparisons and truncations depend on the last bit.  A natural number   *)
(* of any size is the sequence of its digits in base 2^15, lowest first,   *)
(* without leading zero digits; a float >= 0 is [m |-> n, e |-> k], the    *)
(* number n * 2^k with 2^52 <= n < 2^53, or n = 0 and k = 0.               *)

BigBase == 32768

\* The element of a set of one element.
The(S) == CHOOSE r \in S : TRUE

Pow2(k) ==
    CASE k = 0 -> 1 [] k = 1 -> 2 [] k = 2 -> 4 [] k = 3 -> 8 [] k = 4 -> 16
      [] k = 5 -> 32 [] k = 6 -> 64 [] k = 7 -> 128 [] k = 8 -> 256
      [] k = 9 -> 512 [] k = 10 -> 1024 [] k = 11 -> 2048 [] k = 12 -> 4096
      [] k = 13 -> 8192 [] k = 14 -> 16384 [] k = 15 -> 32768

RECURSIVE BigTrim(_)
BigTrim(a) ==
    IF a = <<>> THEN a
    ELSE IF a[Len(a)] = 0 THEN BigTrim(SubSeq(a, 1, Len(a) - 1)) ELSE a

BigDigit(a, i) == IF i <= Len(a) THEN a[i] ELSE 0

BigOf(n) ==
    BigTrim(<<n % BigBase, (n \div BigBase) % BigBase,
              n \div (BigBase * BigBase)>>)

RECURSIVE BigAddFrom(_, _, _, _)
BigAddFrom(a, b, i, carry) ==
    IF i > Len(a) /\ i > Len(b) THEN (IF carry = 0 THEN <<>> ELSE <<carry>>)
    ELSE LET s == BigDigit(a, i) + BigDigit(b, i) + carry
         IN  <<s % BigBase>> \o BigAddFrom(a, b, i + 1, s \div BigBase)

BigAdd(a, b) == BigAddFrom(a, b, 1, 0)

\* a - b for a >= b
RECURSIVE BigSubFrom(_, _, _, _)
BigSubFrom(a, b, i, borrow) ==
    IF i > Len(a) THEN <<>>
    ELSE LET d == a[i] - BigDigit(b, i) - borrow
         IN  IF d < 0 THEN <<d + BigBase>> \o BigSubFrom(a, b, i + 1, 1)
             ELSE <<d>> \o BigSubFrom(a, b, i + 1, 0)

BigSub(a, b) == BigTrim(BigSubFrom(a, b, 1, 0))

RECURSIVE BigCmpAt(_, _, _)
BigCmpAt(a, b, i) ==
    IF i = 0 THEN 0
    ELSE IF a[i] # b[i] THEN (IF a[i] > b[i] THEN 1 ELSE -1)
    ELSE BigCmpAt(a, b, i - 1)

\* 1, 0 or -1 as a > b, a = b or a < b
BigCmp(a, b) ==
    IF Len(a) # Len(b) THEN (IF Len(a) > Len(b) THEN 1 ELSE -1)
    ELSE BigCmpAt(a, b, Len(a))

\* a * k for 0 <= k <= 2^15
RECURSIVE BigMulSmallFrom(_, _, _, _)
BigMulSmallFrom(a, k, i, carry) ==
    IF i > Len(a) THEN (IF carry = 0 THEN <<>> ELSE <<carry>>)
    ELSE LET p == a[i] * k + carry
         IN  <<p % BigBase>> \o BigMulSmallFrom(a, k, i + 1, p \div BigBase)

BigMulSmall(a, k) == IF k = 0 THEN <<>> ELSE BigMulSmallFrom(a, k, 1, 0)

BigShiftDigits(a, n) == IF a = <<>> THEN a ELSE [i \in 1..n |-> 0] \o a

RECURSIVE BigMulFrom(_, _, _)
BigMulFrom(a, b, i) ==
    IF i > Len(b) THEN <<>>
    ELSE BigAdd(BigShiftDigits(BigMulSmall(a, b[i]), i - 1),
                BigMulFrom(a, b, i + 1))

BigMul(a, b) == BigMulFrom(a, b, 1)

\* a * 2^s
BigShl(a, s) == BigShiftDigits(BigMulSmall(a, Pow2(s % 15)), s \div 15)

\* floor(a / 2^s)
BigShr(a, s) ==
    LET n == s \div 15
        r == s % 15
        b == IF n >= Len(a) THEN <<>> ELSE SubSeq(a, n + 1, Len(a))
    IN  BigTrim([i \in 1..Len(b) |->
                    (b[i] \div Pow2(r))
                      + (BigDigit(b, i + 1) % Pow2(r)) * Pow2(15 - r)])

RECURSIVE BitLen(_)
BitLen(n) == IF n = 0 THEN 0 ELSE 1 + BitLen(n \div 2)

BigBitLen(a) == IF a = <<>> THEN 0 ELSE 15 * (Len(a) - 1) + BitLen(a[Len(a)])

BigIsOdd(a) == a # <<>> /\ a[1] % 2 = 1

\* The number a < 2^31 as an integer.
BigToInt(a) ==
    BigDigit(a, 1) + BigBase * BigDigit(a, 2)
      + BigBase * BigBase * BigDigit(a, 3)

\* q, the floor of a quotient, moved to the nearest integer, ties to even:
\* c is 1, 0 or -1 as the rest is above, at or below one half.
BigRoundUp(q, c) ==
    IF c > 0 \/ (c = 0 /\ BigIsOdd(q)) THEN BigAdd(q, <<1>>) ELSE q

BigShrRoundFrom(a, s, q) ==
    BigRoundUp(q, BigCmp(BigSub(a, BigShl(q, s)), BigShl(<<1>>, s - 1)))

\* a / 2^s rounded to the nearest integer, ties to even.
BigShrRound(a, s) ==
    IF s <= 0 THEN BigShl(a, 0 - s) ELSE BigShrRoundFrom(a, s, BigShr(a, s))

\* The floats.
FZero == [m |-> <<>>, e |-> 0]

\* q * 2^e with q of 53 bits, or of 54 after a rounding that carried.
FNormal(q, e) ==
    IF BigBitLen(q) = 54 THEN [m |-> BigShr(q, 1), e |-> e + 1]
    ELSE [m |-> q, e |-> e]

FRoundBy(n, e, s) == FNormal(BigShrRound(n, s), e + s)

\* The float nearest to n * 2^e, ties to even (the rounding of every
\* float operation).
FRound(n, e) ==
    IF n = <<>> THEN FZero ELSE FRoundBy(n, e, BigBitLen(n) - 53)

\* float(k) of an integer 0 <= k < 2^31
FOfInt(k) == FRound(BigOf(k), 0)

\* a and b as x * 2^e and y * 2^e with one exponent.
FAlign(a, b) ==
    LET e0 == IF a.e < b.e THEN a.e ELSE b.e
    IN  [x |-> BigShl(a.m, a.e - e0), y |-> BigShl(b.m, b.e - e0), e |-> e0]

FAddAligned(t) == FRound(BigAdd(t.x, t.y), t.e)

\* a + b
FAdd(a, b) ==
    IF a.m = <<>> THEN b
    ELSE IF b.m = <<>> THEN a
    ELSE FAddAligned(FAlign(a, b))

FCmpAligned(t) == BigCmp(t.x, t.y)

\* 1, 0 or -1 as a > b, a = b or a < b
FCmp(a, b) == FCmpAligned(FAlign(a, b))

FGt(a, b) == FCmp(a, b) > 0

FAbsDiffAligned(t) ==
    IF BigCmp(t.x, t.y) >= 0 THEN FRound(BigSub(t.x, t.y), t.e)
    ELSE FRound(BigSub(t.y, t.x), t.e)

\* abs(a - b)
FAbsDiff(a, b) == FAbsDiffAligned(FAlign(a, b))

\* a * b
FMul(a, b) ==
    IF a.m = <<>> \/ b.m = <<>> THEN FZero
    ELSE FRound(BigMul(a.m, b.m), a.e + b.e)

\* The quotient digit qhat, estimated from the leading bits and never too
\* large, is at most one too small: rem is what it leaves of r1.
FDivFix(qhat, rem, d) ==
    IF BigCmp(rem, d) >= 0 THEN [q |-> qhat + 1, r |-> BigSub(rem, d)]
    ELSE [q |-> qhat, r |-> rem]

FDivEstimate(r1, d, qhat) == FDivFix(qhat, BigSub(r1, BigMulSmall(d, qhat)), d)

FDivShifted(r1, d) ==
    FDivEstimate(r1, d, BigToInt(BigShr(r1, 37)) \div (BigToInt(BigShr(d, 37)) + 1))

\* One step of the long division by d (of 53 bits): fourteen more bits of
\* the quotient, from the remainder r < d.
FDivDigit(r, d) == FDivShifted(BigMulSmall(r, 16384), d)

FDivStep(q, s) == [q |-> BigAdd(BigMulSmall(q, 16384), BigOf(s.q)), r |-> s.r]

\* steps more steps from the quotient t.q and the remainder t.r.  Each step
\* is bound by \in, which evaluates it once and before the loop goes on.
RECURSIVE FDivLoop(_, _, _)
FDivLoop(t, d, steps) ==
    IF steps = 0 THEN t
    ELSE The({FDivLoop(u, d, steps - 1) : u \in {FDivStep(t.q, FDivDigit(t.r, d))}})

\* The leading bit of the quotient of two mantissas of 53 bits.
FDivFirst(x, y) ==
    IF BigCmp(x, y) >= 0 THEN [q |-> <<1>>, r |-> BigSub(x, y)]
    ELSE [q |-> <<>>, r |-> x]

\* The quotient with one bit more, which says whether anything is left.
FDivSticky(t) == BigAdd(BigMulSmall(t.q, 2), IF t.r = <<>> THEN <<>> ELSE <<1>>)

\* The quotient of two mantissas of 53 bits, times 2^71 and with the sticky
\* bit: five steps of fourteen bits.
FDivMantissas(x, y) == FDivSticky(FDivLoop(FDivFirst(x, y), y, 5))

\* a / b for b # 0, rounded.
FDiv(a, b) ==
    IF a.m = <<>> \/ b.m = <<>> THEN FZero
    ELSE FRound(FDivMantissas(a.m, b.m), a.e - b.e - 71)

\* The float of the literal or quotient n/d.
Fl(n, d) == FDiv(FOfInt(n), FOfInt(d))

\* int(a) for 0 <= a < 2^31
FTrunc(a) ==
    IF a.e >= 0 THEN BigToInt(BigShl(a.m, a.e))
    ELSE BigToInt(BigShr(a.m, 0 - a.e))

FRound1MutNoRound(a) == a

\* round(a, 1): the decimal with one digit nearest to a, ties to even, as
\* a rational.
FRound1(a) == Q(BigToInt(BigShrRound(BigMulSmall(a.m, 10), 0 - a.e)), 10)

----------------------------------------------------------------------------
(* Python dict helpers.                                                    *)

EmptyDict == [k \in {} |-> None]

IsDict(v) == "py_type" \notin DOMAIN v

\* d.get(k, default)
Get(d, k, default) == IF k \in DOMAIN d THEN d[k] ELSE default

\* d with d[k] = v
Put(d, k, v) == [x \in (DOMAIN d) \cup {k} |-> IF x = k THEN v ELSE d[x]]

----------------------------------------------------------------------------
(* Python list helpers (lists are 1-based sequences here).                 *)

Last(s) == s[Len(s)]

\* TRUE. Used as the guard of a loop's second half so that TLC, which
\* evaluates operator arguments on demand, computes the first half's value
\* before going on.
Evaluated(v) == v = v

\* The loops over a range lo..hi below are split in halves, so that their
\* evaluation nests to the logarithm of the range and not to its length.
Mid(lo, hi) == (lo + hi) \div 2

\* sum(s[lo..hi]) in the model's 1-based, inclusive indices.
RECURSIVE QSum(_, _, _)
QSum(s, lo, hi) ==
    IF lo > hi THEN I(0)
    ELSE IF lo = hi THEN s[lo]
    ELSE QAdd(QSum(s, lo, Mid(lo, hi)), QSum(s, Mid(lo, hi) + 1, hi))

\* max(s[lo..hi]), lo <= hi
RECURSIVE QMaxOf(_, _, _)
QMaxOf(s, lo, hi) ==
    IF lo = hi THEN s[lo]
    ELSE QMax(QMaxOf(s, lo, Mid(lo, hi)), QMaxOf(s, Mid(lo, hi) + 1, hi))

\* min(s[lo..hi]), lo <= hi
RECURSIVE QMinOf(_, _, _)
QMinOf(s, lo, hi) ==
    IF lo = hi THEN s[lo]
    ELSE QMin(QMinOf(s, lo, Mid(lo, hi)), QMinOf(s, Mid(lo, hi) + 1, hi))

\* An exception leaving a function.
Raised(e) == [py_raise |-> e]

IsRaised(v) == "py_raise" \in DOMAIN v

----------------------------------------------------------------------------
(* indicators.py: the series primitives                                    *)

SmaMutFromStart(closes, period) ==
    IF Len(closes) < period THEN <<>>
    ELSE [k \in 1..(Len(closes) - period + 1) |->
             QDiv(QSum(closes, 1, k + period - 1), I(k + period - 1))]

calculate_sma(closes, period) ==
    IF Len(closes) < period THEN <<>>
    ELSE [k \in 1..(Len(closes) - period + 1) |->
             QDiv(QSum(closes, k, k + period - 1), I(period))]

\* Lines 30-31, for the closes lo..hi.
RECURSIVE EmaLoop(_, _, _, _, _)
EmaLoop(closes, lo, hi, multiplier, ema) ==
    IF lo > hi THEN ema
    ELSE IF lo = hi
    THEN Append(ema, QAdd(QMul(QSub(closes[lo], Last(ema)), multiplier),
                          Last(ema)))
    ELSE LET half == EmaLoop(closes, lo, Mid(lo, hi), multiplier, ema)
         IN  IF Evaluated(half)
             THEN EmaLoop(closes, Mid(lo, hi) + 1, hi, multiplier, half)
             ELSE half

EmaMutSeedLast(closes, period) ==
    IF Len(closes) < period THEN <<>>
    ELSE EmaLoop(closes, period + 1, Len(closes), Q(2, period + 1),
                 <<closes[period]>>)

calculate_ema(closes, period) ==
    IF Len(closes) < period THEN <<>>
    ELSE EmaLoop(closes, period + 1, Len(closes), Q(2, period + 1),
                 <<QDiv(QSum(closes, 1, period), I(period))>>)

----------------------------------------------------------------------------
(* indicators.py: RSI                                                      *)

RsiGains(closes) ==
    [i \in 1..(Len(closes) - 1) |->
        QMax(QSub(closes[i + 1], closes[i]), I(0))]

RsiLosses(closes) ==
    [i \in 1..(Len(closes) - 1) |->
        QAbs(QMin(QSub(closes[i + 1], closes[i]), I(0)))]

\* Wilder smoothing of one average over xs[lo..hi] (lines 57-59).
RECURSIVE WilderAvg(_, _, _, _, _)
WilderAvg(xs, lo, hi, period, avg) ==
    IF lo > hi THEN avg
    ELSE IF lo = hi
    THEN QDiv(QAdd(QMul(avg, I(period - 1)), xs[lo]), I(period))
    ELSE LET half == WilderAvg(xs, lo, Mid(lo, hi), period, avg)
         IN  IF Evaluated(half)
             THEN WilderAvg(xs, Mid(lo, hi) + 1, hi, period, half)
             ELSE half

RsiValueMutZeroRs(avg_gain, avg_loss) ==
    IF avg_loss = I(0) THEN I(0)
    ELSE QSub(I(100), QDiv(I(100), QAdd(I(1), QDiv(avg_gain, avg_loss))))

\* Lines 61-65.
RsiValue(avg_gain, avg_loss) ==
    IF avg_loss = I(0) THEN I(100)
    ELSE QSub(I(100), QDiv(I(100), QAdd(I(1), QDiv(avg_gain, avg_loss))))

\* Lines 68-82: the signal and its strength.
RsiSignalMutNoClamp(rsi) ==
    IF QGe(rsi, I(70))
    THEN [signal |-> "OVERBOUGHT",
          strength |-> Trunc(QAdd(QMul(QSub(rsi, I(70)), Q(333, 100)), I(70)))]
    ELSE IF QLe(rsi, I(30))
    THEN [signal |-> "OVERSOLD",
          strength |-> Trunc(QAdd(QMul(QSub(I(30), rsi), Q(333, 100)), I(70)))]
    ELSE IF QGt(rsi, I(50))
    THEN [signal |-> "UP",
          strength |-> Trunc(QAdd(QMul(QSub(rsi, I(50)), I(2)), I(50)))]
    ELSE IF QLt(rsi, I(50))
    THEN [signal |-> "DOWN",
          strength |-> Trunc(QAdd(QMul(QSub(I(50), rsi), I(2)), I(50)))]
    ELSE [signal |-> "NEUTRAL", strength |-> 50]

RsiSignal(rsi) ==
    IF QGe(rsi, I(70))
    THEN [signal |-> "OVERBOUGHT",
          strength |-> IMin(100, Trunc(QAdd(QMul(QSub(rsi, I(70)), Q(333, 100)), I(70))))]
    ELSE IF QLe(rsi, I(30))
    THEN [signal |-> "OVERSOLD",
          strength |-> IMin(100, Trunc(QAdd(QMul(QSub(I(30), rsi), Q(333, 100)), I(70))))]
    ELSE IF QGt(rsi, I(50))
    THEN [signal |-> "UP",
          strength |-> Trunc(QAdd(QMul(QSub(rsi, I(50)), I(2)), I(50)))]
    ELSE IF QLt(rsi, I(50))
    THEN [signal |-> "DOWN",
          strength |-> Trunc(QAdd(QMul(QSub(I(50), rsi), I(2)), I(50)))]
    ELSE [signal |-> "NEUTRAL", strength |-> 50]

calculate_rsi(closes, period) ==
    IF Len(closes) < period + 1
    THEN [value |-> I(50), signal |-> "NEUTRAL", strength |-> 50]
    ELSE
      LET gains    == RsiGains(closes)
          losses   == RsiLosses(closes)
          avg_gain == WilderAvg(gains, period + 1, Len(gains), period,
                                QDiv(QSum(gains, 1, period), I(period)))
          avg_loss == WilderAvg(losses, period + 1, Len(losses), period,
                                QDiv(QSum(losses, 1, period), I(period)))
          rsi      == RsiValue(avg_gain, avg_loss)
          s        == RsiSignal(rsi)
      IN  [value |-> Round(rsi, 1), signal |-> s.signal,
           strength |-> s.strength,
           description |-> <<"RSI at", Round(rsi, 1)>>]

----------------------------------------------------------------------------
(* indicators.py: MACD                                                     *)

\* Lines 122-136.
MacdSignal(current_macd, current_signal, histogram) ==
    IF QGt(current_macd, current_signal) /\ QGt(current_macd, I(0))
    THEN [signal |-> "UP",
          strength |-> IMin(90, 60 + Trunc(QMul(QAbs(histogram), I(1000))))]
    ELSE IF QLt(current_macd, current_signal) /\ QLt(current_macd, I(0))
    THEN [signal |-> "DOWN",
          strength |-> IMin(90, 60 + Trunc(QMul(QAbs(histogram), I(1000))))]
    ELSE IF QGt(current_macd, current_signal)
    THEN [signal |-> "UP", strength |-> 55]
    ELSE IF QLt(current_macd, current_signal)
    THEN [signal |-> "DOWN", strength |-> 55]
    ELSE [signal |-> "NEUTRAL", strength |-> 50]

calculate_macd(closes, fast, slow, signal) ==
    IF Len(closes) < slow + signal
    THEN [value |-> I(0), signal |-> "NEUTRAL", strength |-> 50]
    ELSE
      LET ema_fast0 == calculate_ema(closes, fast)
          ema_slow  == calculate_ema(closes, slow)
          diff      == Len(ema_fast0) - Len(ema_slow)
          \* zip stops at the shorter list
          n         == IMin(Len(ema_fast0) - diff, Len(ema_slow))
          macd_line == [i \in 1..n |-> QSub(ema_fast0[i + diff], ema_slow[i])]
          signal_line == calculate_ema(macd_line, signal)
      IN  IF Len(macd_line) = 0 \/ Len(signal_line) = 0
          THEN [value |-> I(0), signal |-> "NEUTRAL", strength |-> 50]
          ELSE
            LET current_macd   == Last(macd_line)
                current_signal == Last(signal_line)
                histogram      == QSub(current_macd, current_signal)
                s              == MacdSignal(current_macd, current_signal, histogram)
            IN  [macd |-> Round(current_macd, 6),
                 signal_line |-> Round(current_signal, 6),
                 histogram |-> Round(histogram, 6),
                 signal |-> s.signal,
                 strength |-> IMin(s.strength, 90),
                 description |-> <<"MACD", s.signal>>]

----------------------------------------------------------------------------
(* indicators.py: Stochastic                                               *)

\* Lines 161-170.
StochK(highs, lows, closes, k_period) ==
    [j \in 1..(Len(closes) - k_period + 1) |->
        LET i           == j + k_period - 1
            period_high == QMaxOf(highs, i - k_period + 1, i)
            period_low  == QMinOf(lows, i - k_period + 1, i)
        IN  IF period_high = period_low THEN I(50)
            ELSE QMul(QDiv(QSub(closes[i], period_low),
                           QSub(period_high, period_low)), I(100))]

\* Lines 179-193.
StochSignal(current_k, current_d) ==
    IF QLt(current_k, I(20)) /\ QLt(current_d, I(20))
    THEN [signal |-> "UP",
          strength |-> IMin(100, Trunc(QAdd(QMul(QSub(I(20), current_k), Q(45, 10)), I(70))))]
    ELSE IF QGt(current_k, I(80)) /\ QGt(current_d, I(80))
    THEN [signal |-> "DOWN",
          strength |-> IMin(100, Trunc(QAdd(QMul(QSub(current_k, I(80)), Q(45, 10)), I(70))))]
    ELSE IF QGt(current_k, current_d)
    THEN [signal |-> "UP", strength |-> 55]
    ELSE IF QLt(current_k, current_d)
    THEN [signal |-> "DOWN", strength |-> 55]
    ELSE [signal |-> "NEUTRAL", strength |-> 50]

calculate_stochastic(highs, lows, closes, k_period, d_period) ==
    IF Len(closes) < k_period + d_period
    THEN [k |-> I(50), d |-> I(50), signal |-> "NEUTRAL", strength |-> 50]
    ELSE
      LET k_values  == StochK(highs, lows, closes, k_period)
          d_values  == calculate_sma(k_values, d_period)
          current_k == IF Len(k_values) > 0 THEN Last(k_values) ELSE I(50)
          current_d == IF Len(d_values) > 0 THEN Last(d_values) ELSE I(50)
          s         == StochSignal(current_k, current_d)
      IN  [k |-> Round(current_k, 1), d |-> Round(current_d, 1),
           signal |-> s.signal, strength |-> s.strength,
           description |-> <<"Stochastic K/D", Round(current_k, 0), Round(current_d, 0)>>]

----------------------------------------------------------------------------
(* indicators.py: Bollinger Bands                                          *)

\* math.sqrt is kept symbolic: Surd(a, b, v) is the number a + b * sqrt(v).
\* The fields upper, lower, width_pct and position of the record hold such
\* numbers unrounded (the code rounds them to 5, 5, 2 and 1 decimals); every
\* comparison and the strength are decided exactly by squaring.
Surd(a, b, v) == [a |-> a, b |-> b, radicand |-> v]

\* The largest m in lo..hi with m * m <= r, for lo * lo <= r.
RECURSIVE SqrtFloorIn(_, _, _)
SqrtFloorIn(r, lo, hi) ==
    IF lo >= hi \/ QGt(I((lo + 1) * (lo + 1)), r) THEN lo
    ELSE SqrtFloorIn(r, lo + 1, hi)

\* Lines 223: sum((x - middle_band) ** 2 for x in recent_closes) / period
RECURSIVE SqDevFrom(_, _, _, _)
SqDevFrom(s, lo, hi, m) ==
    IF lo > hi THEN I(0)
    ELSE IF lo = hi THEN QMul(QSub(s[lo], m), QSub(s[lo], m))
    ELSE QAdd(SqDevFrom(s, lo, Mid(lo, hi), m),
              SqDevFrom(s, Mid(lo, hi) + 1, hi, m))

\* Lines 239-247, with dev = current_price - middle_band and
\* upper_band - middle_band = middle_band - lower_band = std_dev * sqrt(variance):
\* int((|dev| - k*std) / (k*std) * 20) = floor(sqrt(400 * dev^2 / (k^2 * variance))) - 20.
BollingerSignal(dev, variance, std_dev) ==
    LET band2   == QMul(QMul(std_dev, std_dev), variance)  \* (upper - middle)^2
        beyond  == QGe(QMul(dev, dev), band2)
        over    == IF band2 = I(0) THEN Raised("ZeroDivisionError")
                   ELSE [strength |->
                          IMin(80, 60 + SqrtFloorIn(
                              QDiv(QMul(I(400), QMul(dev, dev)), band2), 20, 40) - 20)]
    IN  IF QGe(dev, I(0)) /\ beyond
        THEN IF IsRaised(over) THEN over
             ELSE [signal |-> "DOWN", strength |-> over.strength]
        ELSE IF QLe(dev, I(0)) /\ beyond
        THEN IF IsRaised(over) THEN over
             ELSE [signal |-> "UP", strength |-> over.strength]
        ELSE [signal |-> "NEUTRAL", strength |-> 50]

calculate_bollinger_bands(closes, period, std_dev) ==
    IF Len(closes) < period THEN [signal |-> "NEUTRAL", strength |-> 50]
    ELSE
      LET sma == calculate_sma(closes, period)
      IN  IF Len(sma) = 0 THEN [signal |-> "NEUTRAL", strength |-> 50]
          ELSE
            LET middle_band   == Last(sma)
                n             == Len(closes)
                variance      == QDiv(SqDevFrom(closes, n - period + 1, n,
                                                middle_band), I(period))
                current_price == Last(closes)
                dev           == QSub(current_price, middle_band)
                s             == BollingerSignal(dev, variance, std_dev)
            IN  IF middle_band = I(0) THEN Raised("ZeroDivisionError")
                ELSE IF IsRaised(s) THEN s
                ELSE
                  [upper    |-> Surd(middle_band, std_dev, variance),
                   middle   |-> Round(middle_band, 5),
                   lower    |-> Surd(middle_band, QNeg(std_dev), variance),
                   width_pct |-> Surd(I(0),
                       QDiv(QMul(QMul(I(2), std_dev), I(100)), middle_band), variance),
                   position |-> IF variance = I(0) THEN Surd(I(50), I(0), variance)
                                ELSE Surd(I(50),
                                   QDiv(QMul(I(50), dev), QMul(QMul(I(2), std_dev), variance)),
                                   variance),
                   signal   |-> s.signal,
                   strength |-> s.strength,
                   description |-> <<"BB Width">>]

----------------------------------------------------------------------------
(* indicators.py: ADX and ATR                                              *)

\* Lines 279-283 and 360-364: the true range of candle i + 1 (1-based i).
TrueRange(highs, lows, closes, i) ==
    QMax(QMax(QSub(highs[i + 1], lows[i + 1]),
              QAbs(QSub(highs[i + 1], closes[i]))),
         QAbs(QSub(lows[i + 1], closes[i])))

TrList(highs, lows, closes) ==
    [i \in 1..(Len(closes) - 1) |-> TrueRange(highs, lows, closes, i)]

\* Lines 285-296.
PlusDm(highs, lows, n) ==
    [i \in 1..(n - 1) |->
        LET up_move   == QSub(highs[i + 1], highs[i])
            down_move == QSub(lows[i], lows[i + 1])
        IN  IF QGt(up_move, down_move) /\ QGt(up_move, I(0)) THEN up_move ELSE I(0)]

MinusDm(highs, lows, n) ==
    [i \in 1..(n - 1) |->
        LET up_move   == QSub(highs[i + 1], highs[i])
            down_move == QSub(lows[i], lows[i + 1])
        IN  IF QGt(down_move, up_move) /\ QGt(down_move, I(0)) THEN down_move ELSE I(0)]

\* Lines 306-309: x = x - (x / period) + xs[i]
RECURSIVE WilderSum(_, _, _, _, _)
WilderSum(xs, lo, hi, period, acc) ==
    IF lo > hi THEN acc
    ELSE IF lo = hi THEN QAdd(QSub(acc, QDiv(acc, I(period))), xs[lo])
    ELSE LET half == WilderSum(xs, lo, Mid(lo, hi), period, acc)
         IN  IF Evaluated(half)
             THEN WilderSum(xs, Mid(lo, hi) + 1, hi, period, half)
             ELSE half

\* Lines 327-335.
AdxSignal(adx, plus_di_val, minus_di_val) ==
    IF QGe(adx, I(25))
    THEN [signal |-> IF QGt(plus_di_val, minus_di_val) THEN "UP" ELSE "DOWN",
          strength |-> IMin(90, Trunc(QMul(adx, I(2))))]
    ELSE [signal |-> "NEUTRAL", strength |-> 50]

AdxDefault == [value |-> I(25), signal |-> "NEUTRAL", strength |-> 50]

calculate_adx(highs, lows, closes, period) ==
    IF Len(closes) < period * 2 THEN AdxDefault
    ELSE
      LET tr_list  == TrList(highs, lows, closes)
          plus_dm  == PlusDm(highs, lows, Len(closes))
          minus_dm == MinusDm(highs, lows, Len(closes))
      IN  IF Len(tr_list) < period THEN AdxDefault
          ELSE
            LET atr      == WilderSum(tr_list, period + 1, Len(tr_list), period,
                                      QSum(tr_list, 1, period))
                plus_di  == WilderSum(plus_dm, period + 1, Len(plus_dm), period,
                                      QSum(plus_dm, 1, period))
                minus_di == WilderSum(minus_dm, period + 1, Len(minus_dm), period,
                                      QSum(minus_dm, 1, period))
            IN  IF atr = I(0) THEN AdxDefault
                ELSE
                  LET plus_di_val  == QMul(QDiv(plus_di, atr), I(100))
                      minus_di_val == QMul(QDiv(minus_di, atr), I(100))
                      di_sum       == QAdd(plus_di_val, minus_di_val)
                      dx  == IF di_sum = I(0) THEN I(0)
                             ELSE QMul(QDiv(QAbs(QSub(plus_di_val, minus_di_val)),
                                            di_sum), I(100))
                      adx == dx
                      s   == AdxSignal(adx, plus_di_val, minus_di_val)
                  IN  [value |-> Round(adx, 1),
                       plus_di |-> Round(plus_di_val, 1),
                       minus_di |-> Round(minus_di_val, 1),
                       signal |-> s.signal,
                       strength |-> s.strength,
                       trend_strength |-> IF QGe(adx, I(25)) THEN "Strong" ELSE "Weak",
                       description |-> <<"ADX", Round(adx, 1)>>]

AtrMutMinimumPeriod(highs, lows, closes, period) ==
    IF Len(closes) < period THEN I(0)
    ELSE LET tr_list == TrList(highs, lows, closes)
             from    == IF Len(tr_list) > period
                        THEN Len(tr_list) - period + 1 ELSE 1
         IN  QDiv(QSum(tr_list, from, Len(tr_list)), I(period))

calculate_atr(highs, lows, closes, period) ==
    IF Len(closes) < period + 1 THEN I(0)
    ELSE LET tr_list == TrList(highs, lows, closes)
         IN  QDiv(QSum(tr_list, Len(tr_list) - period + 1, Len(tr_list)), I(period))

----------------------------------------------------------------------------
(* indicators.py: Momentum and Rate of Change                              *)

calculate_momentum(closes, period) ==
    IF Len(closes) < period + 1
    THEN [value |-> I(0), signal |-> "NEUTRAL", strength |-> 50]
    ELSE
      LET base       == closes[Len(closes) - period]
          momentum   == QSub(Last(closes), base)
          pct_change == IF base # I(0) THEN QMul(QDiv(momentum, base), I(100))
                        ELSE I(0)
          strength   == IF momentum # I(0)
                        THEN IMin(90, 50 + Trunc(QMul(QAbs(pct_change), I(10))))
                        ELSE 50
      IN  [value |-> Round(momentum, 5),
           pct_change |-> Round(pct_change, 2),
           signal |-> IF QGt(momentum, I(0)) THEN "UP"
                      ELSE IF QLt(momentum, I(0)) THEN "DOWN" ELSE "NEUTRAL",
           strength |-> strength,
           description |-> <<"Momentum", Round(pct_change, 2)>>]

calculate_roc(closes, period) ==
    IF Len(closes) < period + 1
    THEN [value |-> I(0), signal |-> "NEUTRAL", strength |-> 50]
    ELSE
      LET base == closes[Len(closes) - period]
          roc  == IF base # I(0)
                  THEN QMul(QDiv(QSub(Last(closes), base), base), I(100))
                  ELSE I(0)
          strength == IF roc # I(0)
                      THEN IMin(90, 50 + Trunc(QMul(QAbs(roc), I(5))))
                      ELSE 50
      IN  [value |-> Round(roc, 2),
           signal |-> IF QGt(roc, I(0)) THEN "UP"
                      ELSE IF QLt(roc, I(0)) THEN "DOWN" ELSE "NEUTRAL",
           strength |-> strength,
           description |-> <<"ROC", Round(roc, 2)>>]

----------------------------------------------------------------------------
(* indicators.py: Volume analysis                                          *)

\* Line 427: [c["volume"] for c in candles if c.get("volume", 0) > 0]
RECURSIVE VolumesFrom(_, _, _)
VolumesFrom(candles, lo, hi) ==
    IF lo > hi THEN <<>>
    ELSE IF lo = hi
    THEN IF QGt(Get(candles[lo], "volume", I(0)), I(0))
         THEN <<candles[lo].volume>> ELSE <<>>
    ELSE VolumesFrom(candles, lo, Mid(lo, hi))
             \o VolumesFrom(candles, Mid(lo, hi) + 1, hi)

\* Lines 442-450.
VolumeSignal(ratio, volume_change_pct) ==
    IF QGt(ratio, Q(15, 10))
    THEN [signal |-> "HIGH",
          strength |-> IMin(90, 60 + Trunc(QMul(QSub(ratio, I(1)), I(30))))]
    ELSE IF QLt(ratio, Q(5, 10))
    THEN [signal |-> "LOW",
          strength |-> IMin(90, 60 + Trunc(QMul(QSub(I(1), ratio), I(60))))]
    ELSE [signal |-> "NEUTRAL",
          strength |-> 50 + Trunc(QAbs(volume_change_pct))]

calculate_volume_analysis(candles) ==
    IF Len(candles) < 20 THEN [signal |-> "NEUTRAL", strength |-> 50]
    ELSE
      LET volumes == VolumesFrom(candles, 1, Len(candles))
          n       == Len(volumes)
      IN  IF n < 20 THEN [signal |-> "NEUTRAL", strength |-> 50]
          ELSE
            LET recent_avg     == IF n >= 5 THEN QDiv(QSum(volumes, n - 4, n), I(5))
                                  ELSE Last(volumes)
                historical_avg == QDiv(QSum(volumes, n - 19, n), I(20))
                ratio          == IF historical_avg = I(0) THEN I(1)
                                  ELSE QDiv(recent_avg, historical_avg)
                volume_change_pct == QMul(QSub(ratio, I(1)), I(100))
                s              == VolumeSignal(ratio, volume_change_pct)
            IN  [current_volume |-> Last(volumes),
                 avg_volume |-> Round(historical_avg, 2),
                 ratio |-> Round(ratio, 2),
                 change_pct |-> Round(volume_change_pct, 1),
                 signal |-> s.signal,
                 strength |-> IMin(s.strength, 90),
                 description |-> <<"Volume vs avg", Round(volume_change_pct, 1)>>]

----------------------------------------------------------------------------
(* indicators.py: SMA alignment                                            *)

\* Lines 465-471.
SmaDefault ==
    [sma20 |-> None, sma50 |-> None, sma200 |-> None,
     signal |-> "NEUTRAL", strength |-> 50]

SmaKey(period) ==
    IF period = 20 THEN "sma20" ELSE IF period = 50 THEN "sma50" ELSE "sma200"

\* Lines 478-490: the last value of SMA(period), rounded, when there is one.
SmaLevel(closes, period) ==
    IF Len(closes) >= period
    THEN LET sma == calculate_sma(closes, period)
         IN  IF Len(sma) > 0 THEN Round(Last(sma), 5) ELSE None
    ELSE None

\* Lines 506-518 on the counts of lines 493-504.
SmaVerdict(above_count, below_count, total) ==
    IF total > 0 /\ above_count = total
    THEN [signal |-> "UP", strength |-> 70 + (total * 10)]
    ELSE IF total > 0 /\ below_count = total
    THEN [signal |-> "DOWN", strength |-> 70 + (total * 10)]
    ELSE IF total > 0 /\ above_count > below_count
    THEN [signal |-> "UP", strength |-> 55 + (above_count * 5)]
    ELSE IF total > 0 /\ below_count > above_count
    THEN [signal |-> "DOWN", strength |-> 55 + (below_count * 5)]
    ELSE [signal |-> "NEUTRAL", strength |-> 50]

\* What earlier calls left behind: the record the last call of
\* calculate_sma_analysis returned and the accumulators of the last call of
\* aggregate_signals, or None.
NoObjects == [sma |-> None, agg |-> None]

SmaFreshMutShared(alive) == IF alive.sma = None THEN SmaDefault ELSE alive.sma

\* Lines 465-471: result is a dict built anew by each call; the records of
\* earlier calls are not consulted.
SmaFresh(alive) == SmaDefault

\* Lines 478-490: a level is assigned when it was computed, and keeps the
\* value the dict holds otherwise.
SmaKeep(new, old) == IF new # None THEN new ELSE old

SmaLevelsFrom(result, closes) ==
    [sma20  |-> SmaKeep(SmaLevel(closes, 20), result.sma20),
     sma50  |-> SmaKeep(SmaLevel(closes, 50), result.sma50),
     sma200 |-> SmaKeep(SmaLevel(closes, 200), result.sma200)]

\* Lines 496-504: the levels that are not None, and those the price is above.
SmaAvail(levels) == {k \in {"sma20", "sma50", "sma200"} : levels[k] # None}

SmaAbove(levels, current_price) ==
    {k \in SmaAvail(levels) : QGt(current_price, levels[k])}

\* Lines 506-518: signal and strength are assigned in the four branches and
\* keep the values the dict holds when the counts are equal.
SmaDecide(result, above_count, total) ==
    IF total > 0 /\ above_count # total - above_count
    THEN SmaVerdict(above_count, total - above_count, total)
    ELSE [signal |-> result.signal, strength |-> result.strength]

\* Lines 520-522.
SmaRecord(levels, v) ==
    [sma20 |-> levels.sma20, sma50 |-> levels.sma50,
     sma200 |-> levels.sma200,
     signal |-> v.signal, strength |-> v.strength,
     description |-> <<"Price vs SMAs", v.signal>>]

SmaAnalysisOn(result, levels, current_price) ==
    SmaRecord(levels,
        SmaDecide(result, Cardinality(SmaAbove(levels, current_price)),
                  Cardinality(SmaAvail(levels))))

\* Lines 473-522 on the dict result.
SmaAnalysisFrom(result, closes) ==
    IF Len(closes) < 20 THEN result
    ELSE SmaAnalysisOn(result, SmaLevelsFrom(result, closes), Last(closes))

calculate_sma_analysis(closes) == SmaAnalysisFrom(SmaDefault, closes)

----------------------------------------------------------------------------
(* indicators.py: calculate_all_indicators                                 *)

Column(candles, key) == [i \in 1..Len(candles) |-> candles[i][key]]

CandleKeys == {"open", "high", "low", "close"}

calculate_all_indicators(candles) ==
    IF Len(candles) = 0 \/ Len(candles) < 20
    THEN [error |-> "Insufficient data for analysis"]
    ELSE IF \E i \in 1..Len(candles) : ~(CandleKeys \subseteq DOMAIN candles[i])
    THEN Raised("KeyError")
    ELSE
      LET highs  == Column(candles, "high")
          lows   == Column(candles, "low")
          closes == Column(candles, "close")
          bollinger == calculate_bollinger_bands(closes, 20, I(2))
      IN  IF IsRaised(bollinger) THEN bollinger
          ELSE
            [current_price |-> Last(closes),
             candle_count  |-> Len(candles),
             rsi        |-> calculate_rsi(closes, 14),
             stochastic |-> calculate_stochastic(highs, lows, closes, 14, 3),
             momentum   |-> calculate_momentum(closes, 10),
             roc        |-> calculate_roc(closes, 12),
             macd       |-> calculate_macd(closes, 12, 26, 9),
             adx        |-> calculate_adx(highs, lows, closes, 14),
             sma        |-> calculate_sma_analysis(closes),
             bollinger  |-> bollinger,
             atr        |-> Round(calculate_atr(highs, lows, closes, 14), 5),
             volume     |-> calculate_volume_analysis(candles)]

----------------------------------------------------------------------------
(* The candle series the calculators are run on: a flat market at BasePrice  *)
(* and BaseVolume followed by one of the tails below (the most recent        *)
(* candles).  A tail candle is <<high, low, close, volume>>, the prices as   *)
(* offsets from BasePrice.                                                   *)

BasePrice == 100

BaseVolume == 10

\* Series of 0..MaxLen candles are checked, and the long series of LongLens
\* (the sources fetch 300 candles; 200 are needed for SMA200).
MaxLen == 52

LongLens == {199, 200}

Tails ==
    { <<>>,
      << <<4, 0, 4, 10>> >>,
      << <<0, -4, -4, 10>> >>,
      << <<2, 0, 2, 50>>, <<5, 2, 5, 50>> >>,
      << <<2, 0, 2, 90>>, <<5, 2, 5, 90>> >>,
      << <<0, -2, -2, 10>>, <<-2, -5, -5, 10>> >>,
      << <<3, 0, 3, 10>>, <<3, -1, -1, 10>> >>,
      << <<0, -3, -3, 10>>, <<1, -3, 1, 10>> >>,
      << <<2, 0, 2, 10>>, <<2, 0, 0, 10>> >>,
      << <<1, -1, 0, 30>> >>,
      << <<2, -2, 1, 10>>, <<2, 0, 1, 0>> >>,
      << <<0, 0, 0, 1>>, <<0, 0, 0, 1>>, <<0, 0, 0, 1>> >> }

FlatCandle ==
    [open |-> I(BasePrice), high |-> I(BasePrice), low |-> I(BasePrice),
     close |-> I(BasePrice), volume |-> I(BaseVolume)]

TailCandle(t) ==
    [open |-> I(BasePrice), high |-> I(BasePrice + t[1]),
     low |-> I(BasePrice + t[2]), close |-> I(BasePrice + t[3]),
     volume |-> I(t[4])]

\* The series of n candles ending in tail (cut to its last n when n is short).
Series(n, tail) ==
    [i \in 1..n |->
        IF i > n - Len(tail) THEN TailCandle(tail[i - (n - Len(tail))])
        ELSE FlatCandle]

\* Tails whose last close lies between the averages of the last 20 and of
\* the last 50 closes.
CrossTails ==
    { << <<48, 0, 48, 10>>, <<2, 0, 2, 10>> >>,
      << <<0, -48, -48, 10>>, <<0, -2, -2, 10>> >> }

\* A low-priced market: closes of 0.000014 and a last close of 0.000012.
LowCandle(price) ==
    [open |-> price, high |-> price, low |-> price, close |-> price,
     volume |-> I(BaseVolume)]

LowPriced(n) ==
    [i \in 1..n |->
        LowCandle(IF i = n THEN Q(12, 1000000) ELSE Q(14, 1000000))]

LowLens == {20, 50}

SeriesSet == {Series(n, t) : n \in (0..MaxLen) \cup LongLens, t \in Tails}

\* The series calculate_sma_analysis is called on by itself: around each of
\* its three minimum lengths.
SmaLens == {19, 20, 49, 50, 199, 200}

SmaSeriesSet ==
    {Series(n, t) : n \in SmaLens, t \in Tails \cup CrossTails}
      \cup {LowPriced(n) : n \in LowLens}

----------------------------------------------------------------------------
(* analysis.py: aggregate_signals                                          *)

\* The literals of the weight table, in tenths.
WeightTenths ==
    [rsi |-> 12, stochastic |-> 10, momentum |-> 8, roc |-> 8, macd |-> 15,
     adx |-> 13, sma |-> 14, bollinger |-> 9, volume |-> 7]

\* The weight table: each weight is the float of its literal.
weights == [name \in DOMAIN WeightTenths |-> Fl(WeightTenths[name], 10)]

\* weights.items() iterates in insertion order.
WeightOrder ==
    <<"rsi", "stochastic", "momentum", "roc", "macd", "adx", "sma",
      "bollinger", "volume">>

UpBucket == {"UP", "OVERSOLD", "HIGH"}

DownBucket == {"DOWN", "OVERBOUGHT", "LOW"}

\* Lines 48-53: the entry of one indicator.
AggData(name, signal, strength) ==
    [indicator |-> name, signal |-> signal, strength |-> strength,
     weighted_score |-> FMul(FOfInt(strength), weights[name])]

AggPutMutNoBuckets(acc, data) ==
    IF data.signal = "UP"
    THEN [acc EXCEPT !.up_signals = Append(@, data),
                     !.up_score = FAdd(@, data.weighted_score)]
    ELSE IF data.signal = "DOWN"
    THEN [acc EXCEPT !.down_signals = Append(@, data),
                     !.down_score = FAdd(@, data.weighted_score)]
    ELSE [acc EXCEPT !.neutral_signals = Append(@, data)]

\* Lines 55-62: the entry goes to its bucket and its score to the sum.
AggPut(acc, data) ==
    IF data.signal \in UpBucket
    THEN [acc EXCEPT !.up_signals = Append(@, data),
                     !.up_score = FAdd(@, data.weighted_score)]
    ELSE IF data.signal \in DownBucket
    THEN [acc EXCEPT !.down_signals = Append(@, data),
                     !.down_score = FAdd(@, data.weighted_score)]
    ELSE [acc EXCEPT !.neutral_signals = Append(@, data)]

AggStepMutSkipAbsent(acc, indicators, name) ==
    IF name \notin DOMAIN indicators \/ ~IsDict(indicators[name]) THEN acc
    ELSE AggPut(acc, AggData(name, Get(indicators[name], "signal", "NEUTRAL"),
                             Get(indicators[name], "strength", 50)))

\* One iteration of the for loop (lines 42-62) on the accumulators acc.
AggStep(acc, indicators, name) ==
    LET indicator == Get(indicators, name, EmptyDict)
    IN  IF ~IsDict(indicator) THEN acc
        ELSE AggPut(acc, AggData(name, Get(indicator, "signal", "NEUTRAL"),
                                 Get(indicator, "strength", 50)))

\* The for loop of line 42 from the i-th key of the table on, the table
\* being iterated in the given order.
RECURSIVE AggLoop(_, _, _, _)
AggLoop(acc, indicators, order, i) ==
    IF i > Len(order) THEN acc
    ELSE The({AggLoop(next, indicators, order, i + 1) :
                 next \in {AggStep(acc, indicators, order[i])}})

AggInit ==
    [up_signals |-> <<>>, down_signals |-> <<>>, neutral_signals |-> <<>>,
     up_score |-> FZero, down_score |-> FZero]

AggFreshMutShared(alive) == IF alive.agg = None THEN AggInit ELSE alive.agg

\* Lines 22-28: the bucket lists and the scores are built anew by each
\* call; the accumulators of earlier calls are not consulted.
AggFresh(alive) == AggInit

AggVerdictMutNoCap(up_score, down_score) ==
    IF FGt(up_score, FMul(down_score, Fl(12, 10)))
    THEN [direction |-> "UP",
          confidence |->
              FTrunc(FMul(FDiv(up_score, FAdd(FAdd(up_score, down_score), FOfInt(1))), FOfInt(100)))]
    ELSE IF FGt(down_score, FMul(up_score, Fl(12, 10)))
    THEN [direction |-> "DOWN",
          confidence |->
              FTrunc(FMul(FDiv(down_score, FAdd(FAdd(up_score, down_score), FOfInt(1))), FOfInt(100)))]
    ELSE [direction |-> "NEUTRAL",
          confidence |->
              IMax(40, 100 - FTrunc(FDiv(FAbsDiff(up_score, down_score), FOfInt(10))))]

\* Lines 66-75: the direction and its confidence.
AggVerdict(up_score, down_score) ==
    IF FGt(up_score, FMul(down_score, Fl(12, 10)))
    THEN [direction |-> "UP",
          confidence |->
              IMin(95, FTrunc(FMul(FDiv(up_score, FAdd(FAdd(up_score, down_score), FOfInt(1))), FOfInt(100))))]
    ELSE IF FGt(down_score, FMul(up_score, Fl(12, 10)))
    THEN [direction |-> "DOWN",
          confidence |->
              IMin(95, FTrunc(FMul(FDiv(down_score, FAdd(FAdd(up_score, down_score), FOfInt(1))), FOfInt(100))))]
    ELSE [direction |-> "NEUTRAL",
          confidence |->
              IMax(40, 100 - FTrunc(FDiv(FAbsDiff(up_score, down_score), FOfInt(10))))]

AggAlignmentMutUpBucket(direction, acc, total_signals) ==
    IF total_signals = 0 THEN I(50)
    ELSE QMul(Q(Len(acc.up_signals), total_signals), I(100))

\* Lines 77-83: the share of the signals in the verdict's bucket.
AggAlignment(direction, acc, total_signals) ==
    IF total_signals = 0 THEN I(50)
    ELSE LET bucket == IF direction = "UP" THEN acc.up_signals
                       ELSE IF direction = "DOWN" THEN acc.down_signals
                       ELSE acc.neutral_signals
         IN  QMul(Q(Len(bucket), total_signals), I(100))

\* Lines 64 and 85-97: the record returned for the accumulators acc and
\* the verdict v.
AggReturn(acc, v) ==
    [direction        |-> v.direction,
     confidence       |-> v.confidence,
     up_signals       |-> Len(acc.up_signals),
     down_signals     |-> Len(acc.down_signals),
     neutral_signals  |-> Len(acc.neutral_signals),
     up_score         |-> FRound1(acc.up_score),
     down_score       |-> FRound1(acc.down_score),
     signal_alignment |->
         Round(AggAlignment(v.direction, acc,
                            Len(acc.up_signals) + Len(acc.down_signals)
                              + Len(acc.neutral_signals)), 1),
     up_details       |-> acc.up_signals,
     down_details     |-> acc.down_signals,
     neutral_details  |-> acc.neutral_signals]

\* Lines 64-97 after the loop has left the accumulators acc.
AggResult(acc) == AggReturn(acc, AggVerdict(acc.up_score, acc.down_score))

\* Lines 15-97 with the weight table iterated in the given order.
AggregateInOrder(indicators, order) ==
    AggResult(AggLoop(AggInit, indicators, order, 1))

\* Lines 15-97: the table is iterated in the order it is written in.
aggregate_signals(indicators) == AggregateInOrder(indicators, WeightOrder)

----------------------------------------------------------------------------
(* analysis.py: calculate_trade_targets                                    *)

\* Lines 143-151.
NeutralTargets ==
    [direction |-> "NEUTRAL", entry |-> None, target |-> None,
     stop_loss |-> None, risk_reward |-> None]

RiskRewardMutNoRound(entry_low, entry_high, target_low, target_high, stop_loss) ==
    LET entry_mid  == QDiv(QAdd(entry_low, entry_high), I(2))
        target_mid == QDiv(QAdd(target_low, target_high), I(2))
        risk       == QAbs(QSub(entry_mid, stop_loss))
    IN  IF QGt(risk, I(0))
        THEN QDiv(QAbs(QSub(target_mid, entry_mid)), risk)
        ELSE I(0)

\* Lines 153-158: the risk/reward ratio, from the levels before rounding.
RiskReward(entry_low, entry_high, target_low, target_high, stop_loss) ==
    LET entry_mid  == QDiv(QAdd(entry_low, entry_high), I(2))
        target_mid == QDiv(QAdd(target_low, target_high), I(2))
        risk       == QAbs(QSub(entry_mid, stop_loss))
        reward     == QAbs(QSub(target_mid, entry_mid))
    IN  IF QGt(risk, I(0)) THEN Round(QDiv(reward, risk), 2) ELSE I(0)

\* Lines 120-141 and 153-172, for direction UP or DOWN.
TargetLevels(current_price, direction, atr) ==
    LET up          == direction = "UP"
        entry_low   == QSub(current_price, QMul(atr, Q(3, 10)))
        entry_high  == QAdd(current_price, QMul(atr, Q(3, 10)))
        target_low  == IF up THEN QAdd(current_price, QMul(atr, I(2)))
                       ELSE QSub(current_price, QMul(atr, I(3)))
        target_high == IF up THEN QAdd(current_price, QMul(atr, I(3)))
                       ELSE QSub(current_price, QMul(atr, I(2)))
        stop_loss   == IF up THEN QSub(current_price, QMul(atr, Q(3, 2)))
                       ELSE QAdd(current_price, QMul(atr, Q(3, 2)))
        risk_reward == RiskReward(entry_low, entry_high, target_low,
                                  target_high, stop_loss)
        t_lo        == Round(QMin(target_low, target_high), 5)
        t_hi        == Round(QMax(target_low, target_high), 5)
    IN  [direction      |-> direction,
         entry_low      |-> Round(entry_low, 5),
         entry_high     |-> Round(entry_high, 5),
         entry_display  |-> <<Round(entry_low, 5), "-", Round(entry_high, 5)>>,
         target_low     |-> t_lo,
         target_high    |-> t_hi,
         target_display |-> <<t_lo, "-", t_hi>>,
         stop_loss      |-> Round(stop_loss, 5),
         risk_reward    |-> risk_reward,
         atr            |-> Round(atr, 5)]

TargetsMutNoNeutral(current_price, direction, atr, indicators) ==
    TargetLevels(current_price, IF direction = "UP" THEN "UP" ELSE "DOWN",
                 IF atr = I(0) THEN QMul(current_price, Q(2, 100)) ELSE atr)

TargetsMutNoAtrDefault(current_price, direction, atr, indicators) ==
    IF direction \in {"UP", "DOWN"}
    THEN TargetLevels(current_price, direction, atr)
    ELSE NeutralTargets

\* Lines 100-172.  bb.get and sma.get (lines 114-119) raise AttributeError
\* when the bundle holds something that is not a dict under those keys.
calculate_trade_targets(current_price, direction, atr, indicators) ==
    LET atr1 == IF atr = I(0) THEN QMul(current_price, Q(2, 100)) ELSE atr
        bb   == Get(indicators, "bollinger", EmptyDict)
        sma  == Get(indicators, "sma", EmptyDict)
    IN  IF ~IsDict(bb) \/ ~IsDict(sma) THEN Raised("AttributeError")
        ELSE IF direction \in {"UP", "DOWN"}
        THEN TargetLevels(current_price, direction, atr1)
        ELSE NeutralTargets

----------------------------------------------------------------------------
(* crypto_data.py: the two fetchers.  The supplier's answer to the one     *)
(* HTTP request a fetcher makes is a record: [raise |-> e] when the        *)
(* request or the decoding of its body raises, else [status |-> n,         *)
(* json |-> body].  In a body, a JSON list is [py_type |-> "list",         *)
(* items |-> <<...>>] and a JSON object is a dict.                         *)

\* str(e) of the exceptions met in the model.
StrOf(e) ==
    CASE e = "ZeroDivisionError" -> "float division by zero"
      [] e = "KeyError"          -> "'high'"
      [] e = "AttributeError"    -> "'float' object has no attribute 'get'"
      [] OTHER                   -> e

JsonList(items) == [py_type |-> "list", items |-> items]

\* Lines 36-48 of fetch_ohlcv (and 150-160 of get_24h_stats, which agree on
\* these symbols): the pair as <<fsym, tsym>>.
ParseSymbol(symbol) ==
    CASE symbol = "BTC/USDT" -> <<"BTC", "USDT">>
      [] symbol = "ETH/USDT" -> <<"ETH", "USDT">>
      [] symbol = "SOL/USDT" -> <<"SOL", "USDT">>
      [] symbol = "ADA/USDT" -> <<"ADA", "USDT">>
      [] symbol = "XRP/USDT" -> <<"XRP", "USDT">>
      [] symbol = "DOT/USDT" -> <<"DOT", "USDT">>
      [] symbol = "eth-usd"  -> <<"ETH", "USD">>
      [] symbol = ""         -> <<"", "">>

\* Lines 109-120: the candles with close > 0, reformatted.
RECURSIVE FormatCandles(_, _, _)
FormatCandles(candles, lo, hi) ==
    IF lo > hi THEN <<>>
    ELSE IF lo = hi
    THEN LET candle == candles[lo]
         IN  IF ~QGt(Get(candle, "close", I(0)), I(0)) THEN <<>>
             ELSE << [timestamp |-> candle.time,
                      datetime  |-> <<"isoformat", candle.time>>,
                      open      |-> candle.open,
                      high      |-> candle.high,
                      low       |-> candle.low,
                      close     |-> candle.close,
                      volume    |-> Get(candle, "volumefrom", I(0))] >>
    ELSE FormatCandles(candles, lo, Mid(lo, hi))
             \o FormatCandles(candles, Mid(lo, hi) + 1, hi)

\* A kept candle lacks a key that lines 113-117 read by subscript.
FormatRaises(candles) ==
    \E i \in 1..Len(candles) :
        /\ QGt(Get(candles[i], "close", I(0)), I(0))
        /\ ~({"time", "open", "high", "low"} \subseteq DOMAIN candles[i])

\* str(e) of the KeyError then raised: the first key missing.
FormatError(candles) ==
    LET i == CHOOSE j \in 1..Len(candles) :
                 /\ QGt(Get(candles[j], "close", I(0)), I(0))
                 /\ ~({"time", "open", "high", "low"} \subseteq DOMAIN candles[j])
                 /\ \A k \in 1..(j - 1) :
                        QGt(Get(candles[k], "close", I(0)), I(0)) =>
                          {"time", "open", "high", "low"} \subseteq DOMAIN candles[k]
    IN  IF "time" \notin DOMAIN candles[i] THEN "'time'"
        ELSE IF "open" \notin DOMAIN candles[i] THEN "'open'"
        ELSE IF "high" \notin DOMAIN candles[i] THEN "'high'"
        ELSE "'low'"

\* Lines 17-136.  Every exception is caught into an error record (134-136).
fetch_ohlcv(symbol, timeframe, answer) ==
    IF "raise" \in DOMAIN answer THEN [error |-> StrOf(answer.raise)]
    ELSE IF answer.status # 200
    THEN [error |-> <<"API returned status", answer.status>>]
    ELSE
      LET data == answer.json
      IN  IF "Response" \in DOMAIN data /\ data.Response = "Error"
          THEN [error |-> Get(data, "Message", "Unknown error")]
          ELSE
            LET raw_data == Get(data, "Data", JsonList(<<>>))
                inner    == IF IsDict(raw_data)
                            THEN Get(raw_data, "Data", JsonList(<<>>))
                            ELSE raw_data
                candles  == IF "items" \in DOMAIN inner THEN inner.items
                            ELSE <<>>
            IN  IF candles = <<>> THEN [error |-> "No candle data returned"]
                ELSE IF FormatRaises(candles)
                THEN [error |-> FormatError(candles)]
                ELSE
                  LET formatted_candles ==
                          FormatCandles(candles, 1, Len(candles))
                  IN  [symbol |-> <<ParseSymbol(symbol)[1], "/",
                                         ParseSymbol(symbol)[2]>>,
                            timeframe |-> timeframe,
                            exchange |-> "Binance",
                            candle_count |-> Len(formatted_candles),
                            current_price |->
                                IF formatted_candles = <<>> THEN I(0)
                                ELSE Last(formatted_candles).close,
                            candles |-> formatted_candles,
                            fetched_at |-> "now"]

\* Lines 139-197.  Here answer.json is the body's RAW[fsym][tsym] entry, the
\* empty dict when the body has none (line 175).
get_24h_stats(symbol, answer) ==
    IF "raise" \in DOMAIN answer THEN [error |-> StrOf(answer.raise)]
    ELSE IF answer.status # 200
    THEN [error |-> <<"API returned status", answer.status>>]
    ELSE
      LET raw_data == answer.json
      IN  IF raw_data = EmptyDict
          THEN [error |-> "No data available for this pair"]
          ELSE [symbol |-> <<ParseSymbol(symbol)[1], "/", ParseSymbol(symbol)[2]>>,
                current_price  |-> Get(raw_data, "PRICE", I(0)),
                change_24h     |-> Get(raw_data, "CHANGE24HOUR", I(0)),
                change_24h_pct |-> Get(raw_data, "CHANGEPCT24HOUR", I(0)),
                high_24h       |-> Get(raw_data, "HIGH24HOUR", I(0)),
                low_24h        |-> Get(raw_data, "LOW24HOUR", I(0)),
                volume_24h     |-> Get(raw_data, "VOLUME24HOUR", I(0)),
                volume_24h_to  |-> Get(raw_data, "VOLUME24HOURTO", I(0)),
                market_cap     |-> Get(raw_data, "MKTCAP", I(0)),
                last_update    |->
                    IF Get(raw_data, "LASTUPDATE", 0) # 0
                    THEN <<"isoformat", raw_data.LASTUPDATE>> ELSE None]

----------------------------------------------------------------------------
(* analysis.py: the narrative and the orchestrator                         *)

\* str.lower() of the signal names.
Lower(signal) ==
    CASE signal = "UP" -> "up" [] signal = "DOWN" -> "down"
      [] signal = "NEUTRAL" -> "neutral" [] signal = "OVERBOUGHT" -> "overbought"
      [] signal = "OVERSOLD" -> "oversold" [] signal = "HIGH" -> "high"
      [] signal = "LOW" -> "low"

\* Lines 175-244.  The text is kept as its interpolated values, the trade
\* section (226-233) or None, and the warnings appended (236-243).
generate_analysis_narrative(symbol, timeframe, indicators, aggregation, targets) ==
    LET direction  == aggregation.direction
        confidence == aggregation.confidence
        rsi    == Get(indicators, "rsi", EmptyDict)
        macd   == Get(indicators, "macd", EmptyDict)
        adx    == Get(indicators, "adx", EmptyDict)
        sma    == Get(indicators, "sma", EmptyDict)
        volume == Get(indicators, "volume", EmptyDict)
    IN  [symbol        |-> symbol,
         timeframe     |-> timeframe,
         current_price |-> Round(Get(indicators, "current_price", I(0)), 5),
         candle_count  |-> Get(indicators, "candle_count", 0),
         volume_change |-> Round(Get(volume, "change_pct", I(0)), 1),
         rsi           |-> <<Round(Get(rsi, "value", I(50)), 1),
                             Lower(Get(rsi, "signal", "NEUTRAL"))>>,
         stochastic    |-> Lower(Get(Get(indicators, "stochastic", EmptyDict),
                                     "signal", "NEUTRAL")),
         macd          |-> <<Lower(Get(macd, "signal", "NEUTRAL")),
                             Round(Get(macd, "histogram", I(0)), 6)>>,
         adx           |-> <<Round(Get(adx, "value", I(0)), 1),
                             IF QGe(Get(adx, "value", I(0)), I(25))
                             THEN "trending" ELSE "ranging">>,
         sma           |-> Get(sma, "description", "mixed relative to SMAs"),
         aggregation   |-> <<aggregation.up_signals, aggregation.up_score,
                             aggregation.down_signals, aggregation.down_score,
                             aggregation.neutral_signals,
                             Round(aggregation.signal_alignment, 1)>>,
         verdict       |-> <<direction, confidence>>,
         trade_targets |->
             IF direction # "NEUTRAL" /\ "entry_display" \in DOMAIN targets
             THEN <<targets.entry_display, targets.target_display,
                    targets.stop_loss, targets.risk_reward>>
             ELSE None,
         warnings      |->
             (IF confidence < 70 THEN <<"confidence below 70">> ELSE <<>>)
             \o (IF QLt(Get(adx, "value", I(0)), I(20))
                 THEN <<"weak trend">> ELSE <<>>)
             \o (IF QLt(Get(volume, "ratio", I(1)), Q(1, 2))
                 THEN <<"low volume">> ELSE <<>>)]

ErrorRecordMutEscapes(message, symbol, timeframe) == Raised(message)

\* The error record of lines 263-267, 271-275, 284-288 and 388-392.
ErrorRecord(message, symbol, timeframe) ==
    [error |-> message, symbol |-> symbol, timeframe |-> timeframe]

QualityScoreMutNoVolume(indicators, aggregation) ==
    LET adx_val == Get(Get(indicators, "adx", EmptyDict), "value", I(0))
    IN  QDiv(QAdd(QMin(I(100), QMul(adx_val, I(2))),
                  QAdd(aggregation.signal_alignment,
                       I(aggregation.confidence))), I(3))

\* Lines 310-327.
QualityScore(indicators, aggregation) ==
    LET vol_ratio == Get(Get(indicators, "volume", EmptyDict), "ratio", I(1))
        adx_val   == Get(Get(indicators, "adx", EmptyDict), "value", I(0))
        quality_factors ==
            << QMin(I(100), QMul(vol_ratio, I(50))),
               QMin(I(100), QMul(adx_val, I(2))),
               aggregation.signal_alignment,
               I(aggregation.confidence) >>
    IN  QDiv(QSum(quality_factors, 1, 4), I(Len(quality_factors)))

\* Lines 331-384.
VerdictRecordMutThreshold(indicators, aggregation) ==
    [direction |-> IF aggregation.confidence < 70 THEN "NEUTRAL"
                   ELSE aggregation.direction,
     confidence |-> aggregation.confidence,
     quality_score |-> Round(QualityScore(indicators, aggregation), 1)]

\* Lines 369-373.
VerdictRecord(indicators, aggregation) ==
    [direction |-> aggregation.direction,
     confidence |-> aggregation.confidence,
     quality_score |-> Round(QualityScore(indicators, aggregation), 1)]

SuccessRecord(symbol, timeframe, ohlcv, stats, indicators, aggregation, targets, narrative) ==
    [success    |-> TRUE,
     symbol     |-> Get(ohlcv, "symbol", symbol),
     timeframe  |-> timeframe,
     exchange   |-> Get(ohlcv, "exchange", "CryptoCompare"),
     analyzed_at |-> "now",
     analysis_duration_seconds |-> "elapsed",
     market_data |->
         [current_price  |-> indicators.current_price,
          candle_count   |-> indicators.candle_count,
          change_24h_pct |-> Get(stats, "change_24h_pct", I(0)),
          volume_24h     |-> Get(stats, "volume_24h", I(0)),
          high_24h       |-> Get(stats, "high_24h", I(0)),
          low_24h        |-> Get(stats, "low_24h", I(0))],
     indicators |->
         [momentum   |-> [rsi |-> indicators.rsi,
                          stochastic |-> indicators.stochastic,
                          momentum |-> indicators.momentum,
                          roc |-> indicators.roc],
          trend      |-> [macd |-> indicators.macd, adx |-> indicators.adx,
                          sma |-> indicators.sma],
          volatility |-> [bollinger |-> indicators.bollinger,
                          atr |-> indicators.atr],
          volume     |-> indicators.volume],
     signal_aggregation |-> aggregation,
     verdict |-> VerdictRecord(indicators, aggregation),
     trade_targets |-> targets,
     narrative |-> narrative]

AfterFetchMutNoMinimum(symbol, timeframe, ohlcv) ==
    IF "error" \in DOMAIN ohlcv
    THEN ErrorRecord(<<"Failed to fetch data:", ohlcv.error>>, symbol, timeframe)
    ELSE None

\* Lines 262-275: the record returned right after the candle fetch, or None
\* when the analysis goes on to the 24h statistics.
AfterFetch(symbol, timeframe, ohlcv) ==
    IF "error" \in DOMAIN ohlcv
    THEN ErrorRecord(<<"Failed to fetch data:", ohlcv.error>>, symbol, timeframe)
    ELSE IF Len(Get(ohlcv, "candles", <<>>)) < 50
    THEN ErrorRecord("Insufficient candle data for analysis", symbol, timeframe)
    ELSE None

QuickRecordMutSmaPrice(symbol, indicators, aggregation) ==
    [symbol     |-> symbol,
     price      |-> indicators.sma.sma20,
     direction  |-> aggregation.direction,
     confidence |-> aggregation.confidence,
     rsi        |-> Get(Get(indicators, "rsi", EmptyDict), "value", I(50))]

\* Lines 408-417.
QuickRecord(symbol, indicators, aggregation) ==
    [symbol     |-> symbol,
     price      |-> indicators.current_price,
     direction  |-> aggregation.direction,
     confidence |-> aggregation.confidence,
     rsi        |-> Get(Get(indicators, "rsi", EmptyDict), "value", I(50))]

QuickFromIndicatorsMutNoCatch(symbol, indicators) ==
    IF IsRaised(indicators) THEN indicators
    ELSE QuickRecord(symbol, indicators, aggregate_signals(indicators))

\* Lines 408-422, given what calculate_all_indicators returned or raised:
\* an exception is caught at 421 and becomes an error record.
QuickFromIndicators(symbol, indicators) ==
    IF IsRaised(indicators)
    THEN [symbol |-> symbol, error |-> StrOf(indicators.py_raise)]
    ELSE IF "current_price" \notin DOMAIN indicators
    THEN [symbol |-> symbol, error |-> "'current_price'"]
    ELSE QuickRecord(symbol, indicators, aggregate_signals(indicators))

\* Lines 402-408, given what fetch_ohlcv returned.
QuickFromFetch(symbol, ohlcv) ==
    IF "error" \in DOMAIN ohlcv
    THEN [symbol |-> symbol, error |-> ohlcv.error]
    ELSE IF Len(Get(ohlcv, "candles", <<>>)) < 20
    THEN [symbol |-> symbol, error |-> "Insufficient data"]
    ELSE QuickFromIndicators(symbol,
             calculate_all_indicators(Get(ohlcv, "candles", <<>>)))

\* Lines 395-422, given the supplier's answer to its one fetch.
get_quick_analysis(symbol, answer) ==
    QuickFromFetch(symbol, fetch_ohlcv(symbol, "1H", answer))

----------------------------------------------------------------------------
(* tools.py: quick_market_scan.  The argument string is a sequence of      *)
(* pieces: a "," , a " " or a piece of other text.                         *)

\* symbols.split(",")
RECURSIVE SplitComma(_, _, _)
SplitComma(str, i, cur) ==
    IF i > Len(str) THEN <<cur>>
    ELSE IF str[i] = "," THEN <<cur>> \o SplitComma(str, i + 1, <<>>)
    ELSE SplitComma(str, i + 1, Append(cur, str[i]))

\* s.strip()
RECURSIVE Strip(_)
Strip(s) ==
    IF s = <<>> THEN s
    ELSE IF s[1] = " " THEN Strip(Tail(s))
    ELSE IF s[Len(s)] = " " THEN Strip(SubSeq(s, 1, Len(s) - 1))
    ELSE s

\* The stripped text as one string: "" or the one piece left.
Text(s) == IF s = <<>> THEN "" ELSE IF Len(s) = 1 THEN s[1] ELSE s

\* Lines 183-186.
SymbolList(str) ==
    LET parts == SplitComma(str, 1, <<>>)
        all   == [i \in 1..Len(parts) |-> Text(Strip(parts[i]))]
    IN  IF Len(all) > 5 THEN SubSeq(all, 1, 5) ELSE all

\* Lines 193-204: the line of the response for one result.
ScanEntry(result) ==
    LET sym == Get(result, "symbol", "Unknown")
    IN  IF "error" \in DOMAIN result
        THEN <<"-", sym, "Unable to analyze", result.error>>
        ELSE LET direction == Get(result, "direction", "NEUTRAL")
             IN  << IF direction = "UP" THEN "green"
                    ELSE IF direction = "DOWN" THEN "red" ELSE "white",
                    sym, direction, Get(result, "confidence", 0),
                    Round(Get(result, "price", I(0)), 5),
                    Round(Get(result, "rsi", I(50)), 1) >>

\* Lines 189-210 once gather has returned: the text built from the results,
\* or the text of line 210 when gather raised what a task raised.
ScanResponse(results) ==
    IF \E i \in 1..Len(results) : IsRaised(results[i])
    THEN [failed |-> "An error occurred during market scan"]
    ELSE [header  |-> "Quick Market Scan Results",
          entries |-> [i \in 1..Len(results) |-> ScanEntry(results[i])]]

----------------------------------------------------------------------------
(* The aggregator called on bounded indicator mappings.                    *)

\* At most this many of the nine weighted keys are present in the mapping
\* (a missing key is read as the empty dict by line 43).
MaxEntries == 2

\* The values a mapping may hold under a weighted key: indicator records
\* with a standard or an unknown signal, records lacking a key, the empty
\* record, and a value that is not a dict.  Among the strengths are pairs
\* whose weighted scores stand in the ratio 1.2 (60 and 72 under equal
\* weights) or give a confidence on an integer (72 and 68 under the weights
\* of rsi and volume: 100 * 86.4 / 135 = 64).
AggEntries ==
    [signal : {"UP", "DOWN"}, strength : {0, 50, 60, 68, 72, 100}]
      \cup {[signal |-> "OVERBOUGHT", strength |-> 100],
            [signal |-> "OVERSOLD", strength |-> 50],
            [signal |-> "HIGH", strength |-> 100],
            [signal |-> "LOW", strength |-> 50],
            [signal |-> "NEUTRAL", strength |-> 50],
            [signal |-> "SIDEWAYS", strength |-> 100]}
      \cup {[signal |-> "UP"], [strength |-> 100], EmptyDict,
            [py_type |-> "float"]}

\* The mappings the caller starts from: the empty one, and one whose nine
\* weighted keys all hold a value that is not a dict, so that line 44 skips
\* every key and no signal is classified.
AggStarts == {EmptyDict, [name \in DOMAIN weights |-> [py_type |-> "float"]]}

\* The parts of the program a specification does not exercise stay idle.
TgtIdle ==
    /\ tgt_in = None
    /\ tgt_out = None

PfaIdle ==
    /\ pfa_pc = "idle"
    /\ pfa_args = None
    /\ ohlcv_data = None
    /\ stats_24h = None
    /\ pfa_indicators = None
    /\ pfa_aggregation = None
    /\ pfa_targets = None
    /\ pfa_steps = <<>>
    /\ pfa_result = None

ScanIdle ==
    /\ scan_pc = "idle"
    /\ symbols = <<>>
    /\ symbol_list = <<>>
    /\ tasks = <<>>
    /\ response = None

PureIdle ==
    /\ pure_alive = NoObjects
    /\ pure_calls = <<>>

ToolIdle ==
    /\ room = None
    /\ tool_pc = "idle"
    /\ tool_args = None
    /\ tool_log = <<>>
    /\ tool_text = None

AggIdle ==
    /\ agg_in = EmptyDict
    /\ agg_order = WeightOrder
    /\ agg_out = None

\* The caller builds the mapping, one key at a time.
PutIndicator ==
    /\ \E name \in DOMAIN weights, e \in AggEntries :
        /\ name \notin DOMAIN agg_in
        /\ Cardinality(DOMAIN agg_in) < MaxEntries
        /\ agg_in' = Put(agg_in, name, e)
        /\ agg_out' = None
    /\ UNCHANGED <<agg_order, indVars, tgtVars, pfaVars, scanVars, pureVars, toolVars>>

CallAggregate ==
    /\ agg_out = None
    /\ agg_out' = aggregate_signals(agg_in)
    /\ UNCHANGED <<agg_in, agg_order, indVars, tgtVars, pfaVars, scanVars, pureVars, toolVars>>

\* The aggregator with its weight table written in another order: what
\* line 42 iterates is the table's insertion order.
OrderNames == {"rsi", "momentum", "sma", "volume"}

\* No entry, or a record whose weighted score is no dyadic number, so that
\* three of them added in two orders can differ in the last bit.
OrderEntries ==
    {[signal |-> "UP", strength |-> 55], [signal |-> "UP", strength |-> 90],
     [signal |-> "DOWN", strength |-> 55]}

OrderInputs ==
    UNION {[names -> OrderEntries] : names \in SUBSET OrderNames}

Reverse(seq) == [i \in 1..Len(seq) |-> seq[Len(seq) + 1 - i]]

Rotate(seq, k) == [i \in 1..Len(seq) |-> seq[((i + k - 1) % Len(seq)) + 1]]

\* The order of the source, its reverse and two rotations of it.
TableOrders ==
    {WeightOrder, Reverse(WeightOrder), Rotate(WeightOrder, 2),
     Rotate(WeightOrder, 6)}

CallAggregateInOrder ==
    /\ agg_out = None
    /\ \E order \in TableOrders :
        /\ agg_order' = order
        /\ agg_out' = AggregateInOrder(agg_in, order)
    /\ UNCHANGED <<agg_in, indVars, tgtVars, pfaVars, scanVars, pureVars, toolVars>>

----------------------------------------------------------------------------
(* The indicator calculators called on the candle series.                  *)

CalcNames ==
    {"rsi", "macd", "stochastic", "bollinger", "adx", "momentum", "roc",
     "volume", "sma", "atr", "all"}

\* The call calculate_all_indicators makes of each calculator (lines
\* 551-566), here on a series of any length.
RunCalc(name, cs) ==
    LET highs  == Column(cs, "high")
        lows   == Column(cs, "low")
        closes == Column(cs, "close")
    IN  CASE name = "rsi"        -> calculate_rsi(closes, 14)
          [] name = "macd"       -> calculate_macd(closes, 12, 26, 9)
          [] name = "stochastic" -> calculate_stochastic(highs, lows, closes, 14, 3)
          [] name = "bollinger"  -> calculate_bollinger_bands(closes, 20, I(2))
          [] name = "adx"        -> calculate_adx(highs, lows, closes, 14)
          [] name = "momentum"   -> calculate_momentum(closes, 10)
          [] name = "roc"        -> calculate_roc(closes, 12)
          [] name = "volume"     -> calculate_volume_analysis(cs)
          [] name = "sma"        -> calculate_sma_analysis(closes)
          [] name = "atr"        -> calculate_atr(highs, lows, closes, 14)
          [] name = "all"        -> calculate_all_indicators(cs)

IndIdle ==
    /\ calc_candles = <<>>
    /\ calc = None

CallCalculator ==
    /\ calc = None
    /\ \E name \in CalcNames :
          calc' = [name |-> name, out |-> RunCalc(name, calc_candles)]
    /\ UNCHANGED <<calc_candles, aggVars, tgtVars, pfaVars, scanVars, pureVars, toolVars>>

----------------------------------------------------------------------------
(* The specifications.                                                     *)

InitAgg ==
    /\ agg_in \in AggStarts
    /\ agg_order = WeightOrder
    /\ agg_out = None
    /\ IndIdle /\ TgtIdle /\ PfaIdle /\ ScanIdle /\ PureIdle /\ ToolIdle

NextAgg == PutIndicator \/ CallAggregate

SpecAgg == InitAgg /\ [][NextAgg]_vars

InitOrder ==
    /\ agg_in \in OrderInputs
    /\ agg_order = WeightOrder
    /\ agg_out = None
    /\ IndIdle /\ TgtIdle /\ PfaIdle /\ ScanIdle /\ PureIdle /\ ToolIdle

NextOrder == CallAggregateInOrder

SpecOrder == InitOrder /\ [][NextOrder]_vars

InitInd ==
    /\ calc_candles \in SeriesSet
    /\ calc = None
    /\ AggIdle /\ TgtIdle /\ PfaIdle /\ ScanIdle /\ PureIdle /\ ToolIdle

NextInd == CallCalculator

SpecInd == InitInd /\ [][NextInd]_vars

----------------------------------------------------------------------------
(* calculate_sma_analysis called on its own.                               *)

CallSmaAnalysis ==
    /\ calc = None
    /\ calc' = [name |-> "sma",
                out |-> calculate_sma_analysis(Column(calc_candles, "close"))]
    /\ UNCHANGED <<calc_candles, aggVars, tgtVars, pfaVars, scanVars, pureVars, toolVars>>

InitSma ==
    /\ calc_candles \in SmaSeriesSet
    /\ calc = None
    /\ AggIdle /\ TgtIdle /\ PfaIdle /\ ScanIdle /\ PureIdle /\ ToolIdle

NextSma == CallSmaAnalysis

SpecSma == InitSma /\ [][NextSma]_vars

----------------------------------------------------------------------------
(* The two moving averages called on short close series.                   *)

\* The series have at most this many closes.
AvgLen == 4

AvgValues == {I(1), I(4), Q(5, 2)}

AvgCloses ==
    UNION {[1..n -> AvgValues] : n \in 0..AvgLen}
      \cup {<<I(1), I(2), I(3), I(4), I(5)>>}

\* Periods up to one more than the five closes of the longest series.
AvgPeriods == 1..(AvgLen + 2)

AvgRun(name, closes, period) ==
    IF name = "calculate_sma" THEN calculate_sma(closes, period)
    ELSE calculate_ema(closes, period)

CallAverage ==
    /\ calc = None
    /\ \E name \in {"calculate_sma", "calculate_ema"}, period \in AvgPeriods :
          calc' = [name |-> name, period |-> period,
                   out |-> AvgRun(name, Column(calc_candles, "close"), period)]
    /\ UNCHANGED <<calc_candles, aggVars, tgtVars, pfaVars, scanVars, pureVars, toolVars>>

InitAvg ==
    /\ calc_candles \in {[i \in 1..Len(cl) |-> [close |-> cl[i]]] : cl \in AvgCloses}
    /\ calc = None
    /\ AggIdle /\ TgtIdle /\ PfaIdle /\ ScanIdle /\ PureIdle /\ ToolIdle

NextAvg == CallAverage

SpecAvg == InitAvg /\ [][NextAvg]_vars

----------------------------------------------------------------------------
(* Calculators and the aggregator called one after another by one caller:  *)
(* every call is logged with its argument as it was before and after the   *)
(* call and with what it returned.                                         *)

\* At most this many calls are logged.
MaxCalls == 3

\* The calculators that take the candle arrays.
PureCalcNames == CalcNames \ {"all"}

\* The caller's series: 19 candles, below the minimum of SMA alignment, and
\* 50 candles ending in a rise.
PureSeries == {Series(19, << <<4, 0, 4, 10>> >>), Series(50, << <<4, 0, 4, 10>> >>)}

\* The caller's indicator mappings.
PureBundles ==
    {EmptyDict,
     [rsi |-> [signal |-> "OVERSOLD", strength |-> 72],
      volume |-> [signal |-> "LOW", strength |-> 68]]}

\* One calculator call, given the objects earlier calls left behind.
PureRun(name, cs, alive) ==
    IF name = "sma"
    THEN SmaAnalysisFrom(SmaFresh(alive), Column(cs, "close"))
    ELSE RunCalc(name, cs)

\* The call returns: no statement of the calculators or of
\* aggregate_signals assigns to an element of an argument, so the argument
\* holds after the call what it held before.
PureReturn(name, input, out, alive) ==
    /\ pure_calls' = Append(pure_calls, [name |-> name, input |-> input,
                                         after |-> input, out |-> out])
    /\ pure_alive' = alive

PureKeepSma(name, out) ==
    IF name = "sma" THEN [pure_alive EXCEPT !.sma = out] ELSE pure_alive

PureAggReturn(indicators, acc) ==
    PureReturn("aggregate_signals", indicators, AggResult(acc),
               [pure_alive EXCEPT !.agg = acc])

PureCalcReturn(name, cs, out) ==
    PureReturn(name, cs, out, PureKeepSma(name, out))

CallPureCalculator ==
    /\ Len(pure_calls) < MaxCalls
    /\ \E name \in PureCalcNames, cs \in PureSeries :
          PureCalcReturn(name, cs, PureRun(name, cs, pure_alive))
    /\ UNCHANGED <<aggVars, indVars, tgtVars, pfaVars, scanVars, toolVars>>

CallPureAggregate ==
    /\ Len(pure_calls) < MaxCalls
    /\ \E indicators \in PureBundles :
          PureAggReturn(indicators,
              AggLoop(AggFresh(pure_alive), indicators, WeightOrder, 1))
    /\ UNCHANGED <<aggVars, indVars, tgtVars, pfaVars, scanVars, toolVars>>

InitPure ==
    PureIdle /\ AggIdle /\ IndIdle /\ TgtIdle /\ PfaIdle /\ ScanIdle /\ ToolIdle

NextPure == CallPureCalculator \/ CallPureAggregate

SpecPure == InitPure /\ [][NextPure]_vars

----------------------------------------------------------------------------
(* The target calculator called on its own.                                *)

\* 0.00001 is the price of a low-priced market.
TgtPrices == {I(0), Q(1, 100000), Q(1, 2), I(100)}

\* 1/3000 is an ATR whose multiples do not fit in five decimals.
TgtAtrs == {I(0), Q(1, 3000), Q(1, 4), I(2)}

TgtDirections == {"UP", "DOWN", "NEUTRAL", "SIDEWAYS", ""}

\* Bundles as calculate_all_indicators builds them, whole or in part: the
\* Bollinger record with and without its bands, the SMA record with and
\* without sma50.
TgtBundles ==
    {EmptyDict,
     [bollinger |-> [signal |-> "NEUTRAL", strength |-> 50],
      sma |-> [signal |-> "NEUTRAL", strength |-> 50, sma50 |-> None]],
     [bollinger |-> [upper |-> I(104), middle |-> I(100), lower |-> I(96),
                     signal |-> "NEUTRAL", strength |-> 50],
      sma |-> [signal |-> "UP", strength |-> 90, sma20 |-> I(99),
               sma50 |-> I(98)],
      atr |-> I(2), current_price |-> I(100)]}

InitTargets ==
    /\ tgt_in \in [current_price : TgtPrices, direction : TgtDirections,
                    atr : TgtAtrs, indicators : TgtBundles]
    /\ tgt_out = None
    /\ AggIdle /\ IndIdle /\ PfaIdle /\ ScanIdle /\ PureIdle /\ ToolIdle

CallTargets ==
    /\ tgt_out = None
    /\ tgt_out' = calculate_trade_targets(tgt_in.current_price,
                       tgt_in.direction, tgt_in.atr, tgt_in.indicators)
    /\ UNCHANGED <<tgt_in, aggVars, indVars, pfaVars, scanVars, pureVars, toolVars>>

NextTargets == CallTargets

SpecTargets == InitTargets /\ [][NextTargets]_vars

----------------------------------------------------------------------------
(* What the data supplier may answer.                                      *)

\* The supplier's candle for a candle of the series above.
RawCandle(c, t) ==
    [time |-> t, open |-> c.open, high |-> c.high, low |-> c.low,
     close |-> c.close, volumefrom |-> c.volume, volumeto |-> c.volume]

RawSeries(n, tail) == [i \in 1..n |-> RawCandle(Series(n, tail)[i], i)]

\* An empty candle, which fetch_ohlcv drops (line 111).
EmptyCandle ==
    [time |-> 0, open |-> I(0), high |-> I(0), low |-> I(0), close |-> I(0),
     volumefrom |-> I(0)]

OkAnswer(candles) == [status |-> 200, json |-> [Data |-> JsonList(candles)]]

FailedAnswers ==
    { [raise |-> "TimeoutError"],
      [status |-> 500, json |-> EmptyDict],
      [status |-> 200, json |-> [Response |-> "Error",
                                 Message |-> "market does not exist"]],
      [status |-> 200, json |-> EmptyDict],
      OkAnswer(<< [time |-> 1, close |-> I(BasePrice)] >>) }

\* Series around the 50 candles perform_full_analysis asks for.
PfaLens == {49, 50, MaxLen}

FetchAnswers ==
    FailedAnswers
      \cup {OkAnswer(RawSeries(n, t)) : n \in PfaLens, t \in Tails}
      \cup { OkAnswer(<<EmptyCandle>> \o RawSeries(49, << <<4, 0, 4, 10>> >>)),
             OkAnswer(<<EmptyCandle>> \o RawSeries(50, << <<4, 0, 4, 10>> >>)),
             [status |-> 200,
              json |-> [Data |-> [Data |-> JsonList(RawSeries(50, <<>>))]]] }

StatsAnswers ==
    { [raise |-> "TimeoutError"],
      [status |-> 503, json |-> EmptyDict],
      [status |-> 200, json |-> EmptyDict],
      [status |-> 200, json |-> [PRICE |-> I(BasePrice)]],
      [status |-> 200,
       json |-> [PRICE |-> I(BasePrice), CHANGE24HOUR |-> I(3),
                 CHANGEPCT24HOUR |-> Q(31, 10), HIGH24HOUR |-> I(104),
                 LOW24HOUR |-> I(95), VOLUME24HOUR |-> I(1200),
                 VOLUME24HOURTO |-> I(120000), MKTCAP |-> I(1000000),
                 LASTUPDATE |-> 1700000000]] }

PfaArgs ==
    { [symbol |-> "BTC/USDT", timeframe |-> "1H"],
      [symbol |-> "eth-usd", timeframe |-> "4H"] }

----------------------------------------------------------------------------
(* perform_full_analysis, one step per stretch between two awaits.         *)

\* Lines 256-260: the call, up to the await of fetch_ohlcv.
PfaCall ==
    /\ pfa_pc = "idle"
    /\ \E args \in PfaArgs : pfa_args' = args
    /\ pfa_pc' = "fetch_ohlcv"
    /\ pfa_steps' = <<"fetch_ohlcv">>
    /\ UNCHANGED <<ohlcv_data, stats_24h, pfa_indicators, pfa_aggregation,
                   pfa_targets, pfa_result, aggVars, indVars, tgtVars, scanVars, pureVars, toolVars>>

AfterFetchGoesToMutRetry(early) ==
    IF early = None THEN "get_24h_stats" ELSE "fetch_ohlcv"

\* Lines 262-278: where the analysis goes once fetch_ohlcv has returned: to
\* its return of an error record, or on to the await of get_24h_stats.
AfterFetchGoesTo(early) ==
    IF early = None THEN "get_24h_stats" ELSE "done"

\* Lines 260-278: fetch_ohlcv returns; the analysis returns an error record
\* or goes on to await get_24h_stats.
FetchReturns ==
    /\ pfa_pc = "fetch_ohlcv"
    /\ \E answer \in FetchAnswers :
        LET data  == fetch_ohlcv(pfa_args.symbol, pfa_args.timeframe, answer)
            early == AfterFetch(pfa_args.symbol, pfa_args.timeframe, data)
        IN  /\ ohlcv_data' = data
            /\ pfa_result' = early
            /\ pfa_pc' = AfterFetchGoesTo(early)
            /\ pfa_steps' = IF AfterFetchGoesTo(early) = "done"
                            THEN pfa_steps
                            ELSE Append(pfa_steps, AfterFetchGoesTo(early))
    /\ UNCHANGED <<pfa_args, stats_24h, pfa_indicators, pfa_aggregation,
                   pfa_targets, aggVars, indVars, tgtVars, scanVars, pureVars, toolVars>>

\* Lines 278-392: get_24h_stats returns and the analysis runs to its end.
\* An exception raised by a step is caught at 386 and becomes an error
\* record.
StatsReturns ==
    /\ pfa_pc = "get_24h_stats"
    /\ \E answer \in StatsAnswers :
          stats_24h' = get_24h_stats(pfa_args.symbol, answer)
    /\ pfa_indicators' =
          calculate_all_indicators(Get(ohlcv_data, "candles", <<>>))
    /\ IF IsRaised(pfa_indicators') \/ "error" \in DOMAIN pfa_indicators'
       THEN /\ pfa_aggregation' = None
            /\ pfa_targets' = None
            /\ pfa_steps' = pfa_steps \o <<"calculate_all_indicators">>
            /\ pfa_result' =
                 ErrorRecord(IF IsRaised(pfa_indicators')
                             THEN StrOf(pfa_indicators'.py_raise)
                             ELSE pfa_indicators'.error,
                             pfa_args.symbol, pfa_args.timeframe)
       ELSE /\ pfa_aggregation' = aggregate_signals(pfa_indicators')
            /\ pfa_targets' =
                 calculate_trade_targets(pfa_indicators'.current_price,
                     pfa_aggregation'.direction,
                     Get(pfa_indicators', "atr", I(0)), pfa_indicators')
            /\ IF IsRaised(pfa_targets')
               THEN /\ pfa_steps' = pfa_steps \o
                         <<"calculate_all_indicators", "aggregate_signals",
                           "calculate_trade_targets">>
                    /\ pfa_result' =
                         ErrorRecord(StrOf(pfa_targets'.py_raise),
                                     pfa_args.symbol, pfa_args.timeframe)
               ELSE /\ pfa_steps' = pfa_steps \o
                         <<"calculate_all_indicators", "aggregate_signals",
                           "calculate_trade_targets",
                           "generate_analysis_narrative">>
                    /\ pfa_result' =
                         SuccessRecord(pfa_args.symbol, pfa_args.timeframe,
                             ohlcv_data, stats_24h', pfa_indicators',
                             pfa_aggregation', pfa_targets',
                             generate_analysis_narrative(pfa_args.symbol,
                                 pfa_args.timeframe, pfa_indicators',
                                 pfa_aggregation', pfa_targets'))
    /\ pfa_pc' = "done"
    /\ UNCHANGED <<pfa_args, ohlcv_data, aggVars, indVars, tgtVars, scanVars, pureVars, toolVars>>

InitFull ==
    PfaIdle /\ AggIdle /\ IndIdle /\ TgtIdle /\ ScanIdle /\ PureIdle /\ ToolIdle

NextFull == PfaCall \/ FetchReturns \/ StatsReturns

SpecFull == InitFull /\ [][NextFull]_vars

----------------------------------------------------------------------------
(* quick_market_scan and its concurrent get_quick_analysis tasks.          *)

ScanInputs ==
    { <<>>,
      <<"BTC/USDT">>,
      <<"BTC/USDT", ",", " ", "ETH/USDT", " ">>,
      <<"BTC/USDT", ",", ",", "BTC/USDT">>,
      <<"BTC/USDT", ",", "ETH/USDT", ",", "SOL/USDT", ",", "ADA/USDT", ",",
        "XRP/USDT", ",", "DOT/USDT">> }

ScanSymbols ==
    {"", "BTC/USDT", "ETH/USDT", "SOL/USDT", "ADA/USDT", "XRP/USDT", "DOT/USDT"}

\* A failed fetch, too few candles, a flat series and a rising one.
ScanAnswers ==
    { [raise |-> "TimeoutError"],
      OkAnswer(RawSeries(19, << <<4, 0, 4, 10>> >>)),
      OkAnswer(RawSeries(20, <<>>)),
      OkAnswer(RawSeries(20, << <<4, 0, 4, 10>> >>)) }

\* get_quick_analysis over the symbols and answers above, computed once.
QuickTable ==
    {<<s, a, get_quick_analysis(s, a)>> : s \in ScanSymbols, a \in ScanAnswers}

QuickResult(s, a) == (CHOOSE t \in QuickTable : t[1] = s /\ t[2] = a)[3]

\* Lines 180-189: the call, up to the await of asyncio.gather.
ScanCall ==
    /\ scan_pc = "idle"
    /\ \E str \in ScanInputs :
        /\ symbols' = str
        /\ symbol_list' = SymbolList(str)
        /\ tasks' = [i \in 1..Len(SymbolList(str)) |->
                        [pc |-> "created", fetches |-> 0, answer |-> None,
                         result |-> None]]
    /\ scan_pc' = "gather"
    /\ UNCHANGED <<response, aggVars, indVars, tgtVars, pfaVars, pureVars, toolVars>>

\* A task begins: get_quick_analysis up to its await of fetch_ohlcv (401),
\* the one place where it calls fetch_ohlcv.
TaskStart ==
    /\ scan_pc = "gather"
    /\ \E i \in 1..Len(tasks) :
        /\ tasks[i].pc = "created"
        /\ tasks' = [tasks EXCEPT ![i].pc = "fetching",
                                  ![i].fetches = @ + 1]
    /\ UNCHANGED <<scan_pc, symbols, symbol_list, response,
                   aggVars, indVars, tgtVars, pfaVars, pureVars, toolVars>>

\* A task's fetch returns and the task runs to its end (400-422).
TaskFetchReturns ==
    /\ \E i \in 1..Len(tasks), answer \in ScanAnswers :
        /\ tasks[i].pc = "fetching"
        /\ tasks' = [tasks EXCEPT ![i] =
                        [pc |-> "done", fetches |-> tasks[i].fetches,
                         answer |-> answer,
                         result |-> QuickResult(symbol_list[i], answer)]]
    /\ UNCHANGED <<scan_pc, symbols, symbol_list, response,
                   aggVars, indVars, tgtVars, pfaVars, pureVars, toolVars>>

\* gather returns when every task is done, or raises as soon as a task has
\* raised; quick_market_scan then builds its text (191-210).
ScanReturn ==
    /\ scan_pc = "gather"
    /\ \/ \A i \in 1..Len(tasks) : tasks[i].pc = "done"
       \/ \E i \in 1..Len(tasks) :
             tasks[i].pc = "done" /\ IsRaised(tasks[i].result)
    /\ response' = ScanResponse([i \in 1..Len(tasks) |->
                        IF tasks[i].pc = "done" THEN tasks[i].result
                        ELSE [symbol |-> symbol_list[i]]])
    /\ scan_pc' = "done"
    /\ UNCHANGED <<symbols, symbol_list, tasks, aggVars, indVars, tgtVars, pfaVars, pureVars, toolVars>>

InitScan ==
    ScanIdle /\ AggIdle /\ IndIdle /\ TgtIdle /\ PfaIdle /\ PureIdle /\ ToolIdle

NextScan == ScanCall \/ TaskStart \/ TaskFetchReturns \/ ScanReturn

SpecScan == InitScan /\ [][NextScan]_vars

----------------------------------------------------------------------------
(* One invocation of the core by one caller: of perform_full_analysis or   *)
(* of quick_market_scan with its get_quick_analysis tasks.                 *)

InitCore == InitFull

NextCore == (ScanIdle /\ NextFull) \/ (PfaIdle /\ NextScan)

SpecCore == InitCore /\ [][NextCore]_vars

----------------------------------------------------------------------------
(* tools.py: analyze_trading_pair, one step per stretch between two awaits. *)

\* The room object set_room stores in _room.
Room == [py_type |-> "Room"]

\* Lines 46-51.
StartPayload(symbol, timeframe) ==
    [topic |-> "analysis_status", status |-> "started", symbol |-> symbol,
     timeframe |-> timeframe]

\* Lines 65-77 and 83-103: the data for the frontend, read from the result
\* with the defaults of the .get calls; the two format strings round to five
\* and to two decimals.
FrontendData(result) ==
    LET market      == Get(result, "market_data", EmptyDict)
        verdict     == Get(result, "verdict", EmptyDict)
        targets     == Get(result, "trade_targets", EmptyDict)
        indicators  == Get(result, "indicators", EmptyDict)
        aggregation == Get(result, "signal_aggregation", EmptyDict)
        rsi  == Get(Get(indicators, "momentum", EmptyDict), "rsi", EmptyDict)
        macd == Get(Get(indicators, "trend", EmptyDict), "macd", EmptyDict)
        adx  == Get(Get(indicators, "trend", EmptyDict), "adx", EmptyDict)
    IN  [price       |-> <<"$", Round(Get(market, "current_price", I(0)), 5)>>,
         change      |-> <<Round(Get(market, "change_24h_pct", I(0)), 2), "%">>,
         candles     |-> 300,
         rsi         |-> [value  |-> Get(rsi, "value", I(50)),
                          signal |-> Get(rsi, "signal", "NEUTRAL")],
         macd        |-> [signal |-> Get(macd, "signal", "NEUTRAL")],
         adx         |-> [value |-> Get(adx, "value", I(25))],
         upSignals   |-> Get(aggregation, "up_signals", 0),
         downSignals |-> Get(aggregation, "down_signals", 0),
         upScore     |-> Get(aggregation, "up_score", I(0)),
         downScore   |-> Get(aggregation, "down_score", I(0)),
         verdict     |-> Get(verdict, "direction", "NEUTRAL"),
         confidence  |-> Get(verdict, "confidence", 0),
         entry       |-> Get(targets, "entry_display", "N/A"),
         target      |-> Get(targets, "target_display", "N/A"),
         stop        |-> Get(targets, "stop_loss", "N/A")]

\* Lines 105-110.
DataPayload(symbol, timeframe, result) ==
    [topic |-> "analysis_data", data |-> FrontendData(result),
     symbol |-> symbol, timeframe |-> timeframe]

\* Lines 61-62 and 117-123: the text returned for a result.
ToolText(symbol, result) ==
    IF "error" \in DOMAIN result
    THEN <<"Analysis failed for", symbol, result.error>>
    ELSE LET verdict == Get(result, "verdict", EmptyDict)
             targets == Get(result, "trade_targets", EmptyDict)
         IN  <<"Analysis complete for", symbol,
               "Verdict:", Get(verdict, "direction", "NEUTRAL"),
               Get(verdict, "confidence", 0),
               "Entry:", Get(targets, "entry_display", "N/A"),
               "Target:", Get(targets, "target_display", "N/A"),
               "Stop:", Get(targets, "stop_loss", "N/A")>>

ToolGoesToMutPublishesError(the_room, result) ==
    IF the_room # None THEN "publish_data" ELSE "done"

\* Lines 61-62 and 80: where the call goes once perform_full_analysis has
\* returned: to its return, or to the await of the data publish.
ToolGoesTo(the_room, result) ==
    IF "error" \in DOMAIN result THEN "done"
    ELSE IF the_room # None THEN "publish_data" ELSE "done"

\* What a publish_data call leaves in the log: the message when it was
\* published, a failure when it raised (caught at 54 and 113).
PublishEvent(ok, message) ==
    [event |-> IF ok THEN "published" ELSE "publish_failed",
     message |-> message]

\* Lines 41-53: the call, up to the await of the start publish, or up to
\* the await of perform_full_analysis (59) when no room is set.
ToolCall ==
    /\ tool_pc = "idle"
    /\ \E args \in PfaArgs : tool_args' = args
    /\ tool_pc' = IF room # None THEN "publish_started"
                  ELSE "perform_full_analysis"
    /\ tool_log' = IF room # None THEN <<>>
                   ELSE <<[event |-> "analysis_called"]>>
    /\ UNCHANGED <<room, tool_text, aggVars, indVars, tgtVars, pfaVars,
                   scanVars, pureVars>>

\* Lines 52-59: the start publish returns or raises; either way the call
\* goes on to await perform_full_analysis.
PublishStartedReturns ==
    /\ tool_pc = "publish_started"
    /\ \E ok \in BOOLEAN :
          tool_log' = tool_log \o
              <<PublishEvent(ok, StartPayload(tool_args.symbol,
                                             tool_args.timeframe)),
                [event |-> "analysis_called"]>>
    /\ tool_pc' = "perform_full_analysis"
    /\ UNCHANGED <<room, tool_args, tool_text, aggVars, indVars, tgtVars,
                   pfaVars, scanVars, pureVars>>

\* Line 59: perform_full_analysis runs on the arguments of the call.
ToolAnalysisStep ==
    /\ tool_pc = "perform_full_analysis"
    /\ NextFull
    /\ pfa_args' = tool_args

\* Lines 59-112: perform_full_analysis has returned; the call returns the
\* failure text, or goes on to the await of the data publish, or (no room)
\* returns its response.
AnalysisReturns ==
    /\ tool_pc = "perform_full_analysis"
    /\ pfa_pc = "done"
    /\ tool_log' = Append(tool_log,
                          [event |-> "analysis_returned",
                           success |-> "error" \notin DOMAIN pfa_result])
    /\ tool_pc' = ToolGoesTo(room, pfa_result)
    /\ tool_text' = IF ToolGoesTo(room, pfa_result) = "done"
                    THEN ToolText(tool_args.symbol, pfa_result)
                    ELSE None
    /\ UNCHANGED <<room, tool_args, aggVars, indVars, tgtVars, pfaVars,
                   scanVars, pureVars>>

\* Lines 112-123: the data publish returns or raises; either way the call
\* returns its response.
PublishDataReturns ==
    /\ tool_pc = "publish_data"
    /\ \E ok \in BOOLEAN :
          tool_log' = Append(tool_log,
              PublishEvent(ok, DataPayload(tool_args.symbol,
                                           tool_args.timeframe, pfa_result)))
    /\ tool_text' = ToolText(tool_args.symbol, pfa_result)
    /\ tool_pc' = "done"
    /\ UNCHANGED <<room, tool_args, aggVars, indVars, tgtVars, pfaVars,
                   scanVars, pureVars>>

InitTool ==
    /\ room \in {None, Room}
    /\ tool_pc = "idle"
    /\ tool_args = None
    /\ tool_log = <<>>
    /\ tool_text = None
    /\ PfaIdle /\ AggIdle /\ IndIdle /\ TgtIdle /\ ScanIdle /\ PureIdle

NextTool ==
    \/ ToolCall
    \/ PublishStartedReturns
    \/ ToolAnalysisStep
    \/ AnalysisReturns
    \/ PublishDataReturns

SpecTool == InitTool /\ [][NextTool]_vars

----------------------------------------------------------------------------
(* Claims about aggregate_signals, checked under SpecAgg.                  *)

Returned == agg_out # None

\* A returned score in tenths (scores are sums of integer * tenths).
Tenths(q) == Floor(QMul(q, I(10)))

U10 == Tenths(agg_out.up_score)

D10 == Tenths(agg_out.down_score)

\* C1, as stated: the returned confidence is an integer in 0..100 that
\* never exceeds 95, whatever the direction.
C1_ConfidenceAtMost95 ==
    Returned => agg_out.confidence \in 0..95

\* C1, amended: the returned confidence is an integer in 0..100; it never
\* exceeds 95 when the direction is UP or DOWN, and lies in 40..100 when
\* the direction is NEUTRAL.
C1_ConfidenceRange ==
    Returned =>
        /\ agg_out.confidence \in 0..100
        /\ agg_out.direction \in {"UP", "DOWN"} => agg_out.confidence <= 95
        /\ agg_out.direction = "NEUTRAL" => agg_out.confidence \in 40..100

\* A directional verdict whose confidence sits on the cap.
C1_Witness ==
    Returned /\ agg_out.direction = "UP" /\ agg_out.confidence = 95

\* C8: direction is UP exactly when up_score > 1.2 * down_score, DOWN
\* exactly when that fails and down_score > 1.2 * up_score, NEUTRAL
\* otherwise; equal nonzero scores give NEUTRAL and the UP and DOWN
\* conditions are never both true.
C8_DirectionRule ==
    Returned =>
        LET upCond   == 10 * U10 > 12 * D10
            downCond == 10 * D10 > 12 * U10
        IN  /\ agg_out.direction = "UP" <=> upCond
            /\ agg_out.direction = "DOWN" <=> (~upCond /\ downCond)
            /\ agg_out.direction = "NEUTRAL" <=> (~upCond /\ ~downCond)
            /\ (U10 = D10 /\ U10 # 0) => agg_out.direction = "NEUTRAL"
            /\ ~(upCond /\ downCond)

\* Equal nonzero scores, or a score exactly 1.2 times the other.
C8_Witness ==
    Returned /\ U10 > 0 /\ (U10 = D10 \/ 10 * U10 = 12 * D10)
             /\ agg_out.direction = "NEUTRAL"

\* C9: confidence is min(95, trunc(100 * winner / (up + down + 1))) for UP
\* and DOWN and max(40, 100 - trunc(|up - down| / 10)) for NEUTRAL, so a
\* NEUTRAL verdict has confidence >= 40.
C9_ConfidenceFormula ==
    Returned =>
        LET diff10 == IAbs(U10 - D10)
        IN  /\ agg_out.direction = "UP" =>
                 agg_out.confidence = IMin(95, (100 * U10) \div (U10 + D10 + 10))
            /\ agg_out.direction = "DOWN" =>
                 agg_out.confidence = IMin(95, (100 * D10) \div (U10 + D10 + 10))
            /\ agg_out.direction = "NEUTRAL" =>
                 /\ agg_out.confidence = IMax(40, 100 - (diff10 \div 100))
                 /\ agg_out.confidence >= 40

\* A directional verdict below the cap, where the + 1 of the denominator
\* decides the truncated value.
C9_Witness ==
    /\ Returned
    /\ agg_out.direction = "UP"
    /\ agg_out.confidence < 95
    /\ (100 * U10) \div (U10 + D10 + 10) # (100 * U10) \div (U10 + D10)

\* The weight table of the claim, in tenths.
C10_Weight10 ==
    [rsi |-> 12, stochastic |-> 10, momentum |-> 8, roc |-> 8, macd |-> 15,
     adx |-> 13, sma |-> 14, bollinger |-> 9, volume |-> 7]

\* The keys of the mapping read as indicator records (a missing key reads
\* as the empty record, line 43; a value that is not a dict is skipped).
C10_Records == {n \in DOMAIN C10_Weight10 : IsDict(Get(agg_in, n, EmptyDict))}

C10_SignalOf(n) == Get(Get(agg_in, n, EmptyDict), "signal", "NEUTRAL")

C10_StrengthOf(n) == Get(Get(agg_in, n, EmptyDict), "strength", 50)

C10_Names(details) == {details[i].indicator : i \in 1..Len(details)}

RECURSIVE C10_Sum10(_)
C10_Sum10(S) ==
    IF S = {} THEN 0
    ELSE LET n == CHOOSE x \in S : TRUE
         IN  C10_StrengthOf(n) * C10_Weight10[n] + C10_Sum10(S \ {n})

\* C10: each weighted indicator is put in exactly one bucket (UP, OVERSOLD,
\* HIGH: up; DOWN, OVERBOUGHT, LOW: down; anything else: neutral), and
\* up_score / down_score are the sums of strength * weight over the up /
\* down bucket with the fixed weight table; the neutral bucket adds nothing.
C10_Classification ==
    Returned =>
        LET up   == {n \in C10_Records : C10_SignalOf(n) \in {"UP", "OVERSOLD", "HIGH"}}
            down == {n \in C10_Records : C10_SignalOf(n) \in {"DOWN", "OVERBOUGHT", "LOW"}}
            neut == C10_Records \ (up \cup down)
        IN  /\ C10_Names(agg_out.up_details) = up
            /\ C10_Names(agg_out.down_details) = down
            /\ C10_Names(agg_out.neutral_details) = neut
            /\ agg_out.up_signals = Cardinality(up)
            /\ agg_out.down_signals = Cardinality(down)
            /\ agg_out.neutral_signals = Cardinality(neut)
            /\ Len(agg_out.up_details) = Cardinality(up)
            /\ Len(agg_out.down_details) = Cardinality(down)
            /\ Len(agg_out.neutral_details) = Cardinality(neut)
            /\ U10 = C10_Sum10(up)
            /\ D10 = C10_Sum10(down)

\* An OVERSOLD and a LOW record scored, beside seven neutral ones.
C10_Witness ==
    /\ Returned
    /\ \E a, b \in DOMAIN agg_in :
          /\ IsDict(agg_in[a]) /\ IsDict(agg_in[b])
          /\ C10_SignalOf(a) = "OVERSOLD" /\ C10_SignalOf(b) = "LOW"
    /\ U10 > 0 /\ D10 > 0
    /\ agg_out.neutral_signals = 7

----------------------------------------------------------------------------
(* Claims about the indicator calculators, checked under SpecInd.          *)

SignalCalculators ==
    {"rsi", "macd", "stochastic", "bollinger", "adx", "momentum", "roc",
     "volume", "sma"}

\* The records a finished calculator call returned: its own record, or for
\* calculate_all_indicators the nine records of the bundle.
C2_Records ==
    IF calc = None \/ calc.name = "atr" THEN {}
    ELSE IF IsRaised(calc.out) \/ "error" \in DOMAIN calc.out THEN {}
    ELSE IF calc.name = "all" THEN {calc.out[n] : n \in SignalCalculators}
    ELSE {calc.out}

\* C2: every record an indicator calculator returns, on a series of any
\* length, carries an integer strength between 0 and 100.
C2_StrengthRange ==
    \A r \in C2_Records :
        /\ "strength" \in DOMAIN r
        /\ r.strength \in 0..100

\* RSI of a series that only rose: the raw strength int(30 * 3.33 + 70) = 169
\* is returned as 100.
C2_Witness ==
    /\ calc # None
    /\ calc.name = "rsi"
    /\ Len(calc_candles) > 14
    /\ calc.out.signal = "OVERBOUGHT"
    /\ calc.out.strength = 100

\* calculate_all_indicators has been called on the series.
C16_Called == calc # None /\ calc.name = "all"

C16_RecordKeys ==
    {"current_price", "candle_count", "rsi", "stochastic", "momentum", "roc",
     "macd", "adx", "sma", "bollinger", "atr", "volume"}

\* A full indicator record for a series of n candles.
C16_FullRecord(out, n) ==
    /\ ~IsRaised(out)
    /\ DOMAIN out = C16_RecordKeys
    /\ out.candle_count = n
    /\ out.sma.sma50 = None <=> n < 50
    /\ out.sma.sma200 = None <=> n < 200

\* C16: calculate_all_indicators returns {error: ...} for fewer than 20
\* candles, and for 20 or more returns, without raising, a full record
\* without an error key, whose sma50 is null exactly below 50 candles and
\* whose sma200 is null exactly below 200.
C16_AllIndicators ==
    C16_Called =>
        IF Len(calc_candles) < 20
        THEN ~IsRaised(calc.out) /\ DOMAIN calc.out = {"error"}
        ELSE C16_FullRecord(calc.out, Len(calc_candles))

\* The claim's round trip: exactly 20 candles, the last of them off the
\* flat market, give a full record with sma50 and sma200 null.
C16_Witness ==
    /\ C16_Called
    /\ Len(calc_candles) = 20
    /\ C16_FullRecord(calc.out, 20)
    /\ calc.out.sma.sma20 # None

\* Twenty candles or more whose last twenty closes are equal: the call
\* raises.
C16_Raises ==
    /\ C16_Called
    /\ Len(calc_candles) >= 20
    /\ calc.out = Raised("ZeroDivisionError")

\* The minimum input length the claim gives for each calculator.
C17_Minimum ==
    [rsi |-> 15, macd |-> 35, stochastic |-> 17, bollinger |-> 20,
     adx |-> 28, momentum |-> 11, roc |-> 13, volume |-> 20, sma |-> 20,
     atr |-> 15]

C17_Neutral == [signal |-> "NEUTRAL", strength |-> 50]

\* The default the claim gives for each calculator.
C17_Default ==
    [rsi        |-> [value |-> I(50), signal |-> "NEUTRAL", strength |-> 50],
     macd       |-> [value |-> I(0), signal |-> "NEUTRAL", strength |-> 50],
     stochastic |-> [k |-> I(50), d |-> I(50), signal |-> "NEUTRAL",
                     strength |-> 50],
     bollinger  |-> C17_Neutral,
     adx        |-> [value |-> I(25), signal |-> "NEUTRAL", strength |-> 50],
     momentum   |-> [value |-> I(0), signal |-> "NEUTRAL", strength |-> 50],
     roc        |-> [value |-> I(0), signal |-> "NEUTRAL", strength |-> 50],
     volume     |-> C17_Neutral,
     sma        |-> [sma20 |-> None, sma50 |-> None, sma200 |-> None,
                     signal |-> "NEUTRAL", strength |-> 50],
     atr        |-> I(0)]

\* A calculator has been called on a series shorter than its minimum.
C17_Short ==
    /\ calc # None
    /\ calc.name \in DOMAIN C17_Minimum
    /\ Len(calc_candles) < C17_Minimum[calc.name]

\* C17: each calculator, given input shorter than its minimum, returns its
\* fixed default (RSI under 15: 50, NEUTRAL, 50; MACD under 35: 0; Stochastic
\* under 17: k 50, d 50; Bollinger under 20; ADX under 28: 25; Momentum
\* under 11 and ROC under 13: 0; Volume under 20; SMA under 20: three nulls;
\* ATR under 15: 0) and raises nothing.
C17_ShortInputDefaults == C17_Short => calc.out = C17_Default[calc.name]

\* ADX on 27 candles that end in a rise: one candle short of its minimum,
\* the default with value 25.
C17_Witness ==
    /\ C17_Short
    /\ calc.name = "adx"
    /\ Len(calc_candles) = 27
    /\ calc_candles[27].close # calc_candles[1].close
    /\ calc.out.value = I(25)

CalcCloses == Column(calc_candles, "close")

CalcCalled(name) == calc # None /\ calc.name = name

C23_NoDecrease ==
    \A i \in 2..Len(CalcCloses) : QGe(CalcCloses[i], CalcCloses[i - 1])

C23_Constant ==
    \A i \in 1..Len(CalcCloses) : CalcCloses[i] = CalcCloses[1]

\* avg_loss as lines 55-59 compute it for period 14.
C23_AvgLoss ==
    WilderAvg(RsiLosses(CalcCloses), 15, Len(CalcCloses) - 1, 14,
              QDiv(QSum(RsiLosses(CalcCloses), 1, 14), I(14)))

\* C23: calculate_rsi on a series of length >= 15 with no price decrease (a
\* constant-price series among them) takes the avg_loss == 0 branch and
\* returns value 100 with signal OVERBOUGHT, never a division by zero.
C23_NoLossIsOverbought ==
    (CalcCalled("rsi") /\ Len(CalcCloses) >= 15 /\ C23_NoDecrease) =>
        /\ ~IsRaised(calc.out)
        /\ C23_AvgLoss = I(0)
        /\ calc.out.value = I(100)
        /\ calc.out.signal = "OVERBOUGHT"

\* The shortest constant series the claim covers.
C23_Witness ==
    /\ CalcCalled("rsi")
    /\ Len(CalcCloses) = 15
    /\ C23_Constant
    /\ calc.out.value = I(100)
    /\ calc.out.signal = "OVERBOUGHT"
    /\ calc.out.strength = 100

\* A series that rises at its end and never falls.
C23_Rising ==
    /\ CalcCalled("rsi")
    /\ Len(CalcCloses) = 50
    /\ C23_NoDecrease
    /\ ~C23_Constant
    /\ calc.out.value = I(100)

----------------------------------------------------------------------------
(* Claims about calculate_sma_analysis, checked under SpecSma.             *)

\* The three averages of the claim, where the series is long enough, as
\* calculate_sma gives them.
C24_Periods == {p \in {20, 50, 200} : Len(CalcCloses) >= p}

C24_Sma(p) == Last(calculate_sma(CalcCloses, p))

C24_Above == {p \in C24_Periods : QGt(Last(CalcCloses), C24_Sma(p))}

C24_Below == {p \in C24_Periods : QLt(Last(CalcCloses), C24_Sma(p))}

C24_Is(signal, strength) ==
    calc.out.signal = signal /\ calc.out.strength = strength

C24_Verdict(available, above, below) ==
    /\ above = available => C24_Is("UP", 70 + 10 * available)
    /\ below = available => C24_Is("DOWN", 70 + 10 * available)
    /\ (above < available /\ 2 * above > available)
          => C24_Is("UP", 55 + 5 * above)
    /\ (below < available /\ 2 * below > available)
          => C24_Is("DOWN", 55 + 5 * below)
    /\ calc.out.signal = "NEUTRAL"
          => (calc.out.strength = 50 /\ above = below)

\* C24: for a close series of length >= 20, calculate_sma_analysis compares
\* the current price to each available SMA (SMA20 always, SMA50 when
\* length >= 50, SMA200 when length >= 200): price above all of them gives
\* UP with strength 70 + 10 * available, price below all of them gives DOWN
\* with strength 70 + 10 * available, a strict majority above (below) gives
\* UP (DOWN) with strength 55 + 5 * agreeing count, and the signal stays
\* NEUTRAL with strength 50 only when the above and below counts are equal.
C24_PriceAgainstAverages ==
    (CalcCalled("sma") /\ Len(CalcCloses) >= 20) =>
        C24_Verdict(Cardinality(C24_Periods), Cardinality(C24_Above),
                    Cardinality(C24_Below))

\* The low-priced series: the last close 0.000012 is below the average
\* 0.0000139 of the 20 closes, and the call returns UP with strength 80.
C24_Witness ==
    /\ CalcCalled("sma")
    /\ calc_candles = LowPriced(20)
    /\ C24_Sma(20) = Q(139, 10000000)
    /\ C24_Below = {20}
    /\ calc.out.sma20 = Q(1, 100000)
    /\ C24_Is("UP", 80)

\* The same comparison made with the levels the record reports, which are
\* the averages rounded to five decimals: this is what lines 492-518 do.
C24_Reported == {p \in C24_Periods : calc.out[SmaKey(p)] # None}

C24_AboveReported ==
    {p \in C24_Reported : QGt(Last(CalcCloses), calc.out[SmaKey(p)])}

C24_AgainstReportedLevels ==
    (CalcCalled("sma") /\ Len(CalcCloses) >= 20) =>
        /\ C24_Reported = C24_Periods
        /\ \A p \in C24_Periods : calc.out[SmaKey(p)] = Round(C24_Sma(p), 5)
        /\ C24_Verdict(Cardinality(C24_Periods),
                       Cardinality(C24_AboveReported),
                       Cardinality(C24_Periods \ C24_AboveReported))

\* The cases of the claim on 50 and 200 closes: the counts equal, and two
\* of three averages on one side.
C24_Tie ==
    /\ CalcCalled("sma")
    /\ Len(CalcCloses) = 50
    /\ Cardinality(C24_Above) = 1
    /\ Cardinality(C24_Below) = 1
    /\ C24_Is("NEUTRAL", 50)

C24_Majority ==
    /\ CalcCalled("sma")
    /\ Len(CalcCloses) = 200
    /\ Cardinality(C24_Above) = 2
    /\ Cardinality(C24_Below) = 1
    /\ C24_Is("UP", 65)

C24_AllThree ==
    /\ CalcCalled("sma")
    /\ Len(CalcCloses) = 200
    /\ Cardinality(C24_Below) = 3
    /\ C24_Is("DOWN", 100)

----------------------------------------------------------------------------
(* Claims about calls made one after another, checked under SpecPure.      *)

C18_Calls == 1..Len(pure_calls)

----------------------------------------------------------------------------
(* Claims about calculate_trade_targets, checked under SpecTargets.        *)

\* C7: for direction NEUTRAL or any direction other than UP and DOWN, and
\* any price, ATR and bundle, the record returned has entry, target,
\* stop_loss and risk_reward null and holds no price level at all.
C7_NeutralNoLevels ==
    (tgt_out # None /\ tgt_in.direction \notin {"UP", "DOWN"}) =>
        /\ ~IsRaised(tgt_out)
        /\ {"entry", "target", "stop_loss", "risk_reward"} \subseteq DOMAIN tgt_out
        /\ \A k \in DOMAIN tgt_out \ {"direction"} : tgt_out[k] = None
        /\ tgt_out.direction = "NEUTRAL"

\* A direction that is neither UP, DOWN nor NEUTRAL, with a price and an ATR
\* from which levels could have been computed.
C7_Witness ==
    /\ tgt_out # None
    /\ tgt_in.direction = "SIDEWAYS"
    /\ tgt_in.current_price = I(100)
    /\ tgt_in.atr = I(2)
    /\ tgt_out.entry = None

\* A call with direction UP or DOWN that has returned its levels.
C13_Levels ==
    /\ tgt_out # None
    /\ ~IsRaised(tgt_out)
    /\ tgt_in.direction \in {"UP", "DOWN"}

\* A: the given ATR, or price * 0.02 when the given ATR is 0.
C13_A ==
    IF tgt_in.atr = I(0) THEN QMul(tgt_in.current_price, Q(2, 100))
    ELSE tgt_in.atr

\* price + (tenths / 10) * A.
C13_At(tenths) == QAdd(tgt_in.current_price, QMul(Q(tenths, 10), C13_A))

\* The five levels the claim gives for the direction asked for, before any
\* rounding.
C13_Expected ==
    IF tgt_in.direction = "UP"
    THEN [entry_low |-> C13_At(-3), entry_high |-> C13_At(3),
          target_low |-> C13_At(20), target_high |-> C13_At(30),
          stop_loss |-> C13_At(-15)]
    ELSE [entry_low |-> C13_At(-3), entry_high |-> C13_At(3),
          target_low |-> C13_At(-30), target_high |-> C13_At(-20),
          stop_loss |-> C13_At(15)]

\* C13, as stated: for UP the entry band is [price - 0.3A, price + 0.3A],
\* the target band [price + 2A, price + 3A] and the stop price - 1.5A; for
\* DOWN the same entry band, the target band [price - 3A, price - 2A] with
\* target_low < target_high, and the stop price + 1.5A.
C13_LevelsExact ==
    C13_Levels =>
        /\ \A k \in DOMAIN C13_Expected : tgt_out[k] = C13_Expected[k]
        /\ QLt(tgt_out.target_low, tgt_out.target_high)

\* C13, amended: each level is the claim's value rounded to five decimal
\* places, and target_low <= target_high.
C13_LevelsRounded ==
    C13_Levels =>
        /\ \A k \in DOMAIN C13_Expected :
              tgt_out[k] = Round(C13_Expected[k], 5)
        /\ QLe(tgt_out.target_low, tgt_out.target_high)

\* The specification's example: UP, price 100, ATR 2 gives entry
\* 99.4..100.6, target 104..106, stop 97.
C13_Witness ==
    /\ C13_Levels
    /\ tgt_in.direction = "UP"
    /\ tgt_in.current_price = I(100)
    /\ tgt_in.atr = I(2)
    /\ tgt_out.entry_low = Q(994, 10)
    /\ tgt_out.entry_high = Q(1006, 10)
    /\ tgt_out.target_low = I(104)
    /\ tgt_out.target_high = I(106)
    /\ tgt_out.stop_loss = I(97)

\* Price 0 with ATR 0: every level is 0 and the target band is a point.
C13_PointBand ==
    /\ C13_Levels
    /\ tgt_in.direction = "DOWN"
    /\ tgt_out.target_low = tgt_out.target_high

\* The midpoints of the two bands and the risk, from the levels before
\* rounding.
C14_EntryMid ==
    QDiv(QAdd(C13_Expected.entry_low, C13_Expected.entry_high), I(2))

C14_TargetMid ==
    QDiv(QAdd(C13_Expected.target_low, C13_Expected.target_high), I(2))

C14_Risk == QAbs(QSub(C14_EntryMid, C13_Expected.stop_loss))

C14_Reward == QAbs(QSub(C14_TargetMid, C14_EntryMid))

\* A call with direction UP or DOWN never ends in a division by zero.
C14_NoDivisionByZero ==
    (tgt_out # None /\ tgt_in.direction \in {"UP", "DOWN"}) =>
        tgt_out # Raised("ZeroDivisionError")

\* C14, as stated: for UP or DOWN, risk_reward equals
\* |target_mid - entry_mid| / |entry_mid - stop_loss|, equals 0 when that
\* risk is 0, which is when price and ATR are both 0, and no division by
\* zero occurs.
C14_RatioExact ==
    /\ C14_NoDivisionByZero
    /\ C13_Levels =>
          /\ C14_Risk = I(0) <=>
                (tgt_in.current_price = I(0) /\ tgt_in.atr = I(0))
          /\ tgt_out.risk_reward =
                IF C14_Risk = I(0) THEN I(0) ELSE QDiv(C14_Reward, C14_Risk)

\* C14, amended: risk_reward is that ratio rounded to two decimal places.
C14_RatioRounded ==
    /\ C14_NoDivisionByZero
    /\ C13_Levels =>
          /\ C14_Risk = I(0) <=>
                (tgt_in.current_price = I(0) /\ tgt_in.atr = I(0))
          /\ tgt_out.risk_reward =
                IF C14_Risk = I(0) THEN I(0)
                ELSE Round(QDiv(C14_Reward, C14_Risk), 2)

\* The specification's example: UP, price 100, ATR 2, |105 - 100| / |100 - 97|
\* returned as 1.67.
C14_Witness ==
    /\ C13_Levels
    /\ tgt_in.direction = "UP"
    /\ tgt_in.current_price = I(100)
    /\ tgt_in.atr = I(2)
    /\ tgt_out.risk_reward = Q(167, 100)

\* Price 0 with ATR 0: the risk is 0 and so is risk_reward.
C14_ZeroRisk ==
    /\ C13_Levels
    /\ C14_Risk = I(0)
    /\ tgt_out.risk_reward = I(0)

\* A call the claim covers: UP or DOWN, price > 0, ATR >= 0.
C25_Covered ==
    /\ C13_Levels
    /\ QGt(tgt_in.current_price, I(0))
    /\ QGe(tgt_in.atr, I(0))

\* Each value of the sequence is below the next.
C25_Rising(levels) ==
    \A k \in 1..(Len(levels) - 1) : QLt(levels[k], levels[k + 1])

C25_NotFalling(levels) ==
    \A k \in 1..(Len(levels) - 1) : QLe(levels[k], levels[k + 1])

\* The levels of the record from the stop to the far end of the target
\* band, the price inside the entry band: in rising order for UP, and for
\* DOWN when read from the target to the stop.
C25_Chain ==
    IF tgt_in.direction = "UP"
    THEN <<tgt_out.stop_loss, tgt_out.entry_low, tgt_in.current_price,
           tgt_out.entry_high, tgt_out.target_low, tgt_out.target_high>>
    ELSE <<tgt_out.target_low, tgt_out.target_high, tgt_out.entry_low,
           tgt_in.current_price, tgt_out.entry_high, tgt_out.stop_loss>>

\* C25: in every record returned for direction UP or DOWN with price > 0
\* and ATR >= 0 the levels are strictly ordered: for UP, stop_loss <
\* entry_low < entry_high < target_low < target_high; for DOWN, target_low
\* < target_high < entry_low < entry_high < stop_loss; the current price
\* lies strictly inside the entry band, and the stop is on the opposite
\* side of the entry band from the target.
C25_StrictlyOrdered == C25_Covered => C25_Rising(C25_Chain)

\* Price 0.00001 with ATR 0, direction UP: the five levels are all 0.00001.
C25_Witness ==
    /\ C25_Covered
    /\ tgt_in.direction = "UP"
    /\ tgt_in.current_price = Q(1, 100000)
    /\ tgt_in.atr = I(0)
    /\ \A k \in {"stop_loss", "entry_low", "entry_high", "target_low",
                  "target_high"} : tgt_out[k] = Q(1, 100000)

\* What holds of every covered record: no level is out of order, and the
\* levels before rounding are strictly ordered.
C25_Unrounded ==
    IF tgt_in.direction = "UP"
    THEN <<C13_At(-15), C13_At(-3), tgt_in.current_price, C13_At(3),
           C13_At(20), C13_At(30)>>
    ELSE <<C13_At(-30), C13_At(-20), C13_At(-3), tgt_in.current_price,
           C13_At(3), C13_At(15)>>

C25_OrderedUpToRounding ==
    C25_Covered => (C25_NotFalling(C25_Chain) /\ C25_Rising(C25_Unrounded))

\* The levels of price 100 and ATR 2 are strictly ordered.
C25_Ordered ==
    /\ C25_Covered
    /\ tgt_in.direction = "DOWN"
    /\ tgt_in.current_price = I(100)
    /\ tgt_in.atr = I(2)
    /\ C25_Rising(C25_Chain)

----------------------------------------------------------------------------
(* Claims about perform_full_analysis, checked under SpecFull.             *)

Finished == pfa_pc = "done"

IsSuccessResult(r) ==
    /\ "success" \in DOMAIN r
    /\ r.success = TRUE
    /\ {"market_data", "indicators", "signal_aggregation", "verdict",
        "trade_targets", "narrative"} \subseteq DOMAIN r
    /\ "error" \notin DOMAIN r

IsErrorResult(r) == DOMAIN r = {"error", "symbol", "timeframe"}

\* C3: whatever the supplier answers and whatever a pipeline step raises,
\* the call does not raise; it returns either a success result (success
\* true, with market_data, indicators, signal_aggregation, verdict,
\* trade_targets and narrative) or an error record of error, symbol and
\* timeframe, and never a record with both success and error.
C3_NoFaultEscapes ==
    Finished =>
        /\ ~IsRaised(pfa_result)
        /\ IsSuccessResult(pfa_result) \/ IsErrorResult(pfa_result)
        /\ ~(IsSuccessResult(pfa_result) /\ IsErrorResult(pfa_result))
        /\ ~({"success", "error"} \subseteq DOMAIN pfa_result)
        /\ IsErrorResult(pfa_result) =>
              /\ pfa_result.symbol = pfa_args.symbol
              /\ pfa_result.timeframe = pfa_args.timeframe

\* An exception raised inside the indicator computation (the division by a
\* zero band width) came back as an error record.
C3_Witness ==
    /\ Finished
    /\ IsRaised(pfa_indicators)
    /\ IsErrorResult(pfa_result)
    /\ pfa_result.error = "float division by zero"

FetchFailed ==
    /\ ohlcv_data # None
    /\ \/ "error" \in DOMAIN ohlcv_data
       \/ Len(Get(ohlcv_data, "candles", <<>>)) < 50

\* C4: when the candle fetch reports an error or yields fewer than 50
\* candles, the call returns the error record {error, symbol, timeframe}
\* and no later step runs: no 24h-stats fetch, no indicators, no
\* aggregation, no targets, no narrative.
C4_TerminalOnFirstFailure ==
    FetchFailed =>
        /\ Finished
        /\ IsErrorResult(pfa_result)
        /\ pfa_result.symbol = pfa_args.symbol
        /\ pfa_result.timeframe = pfa_args.timeframe
        /\ pfa_steps = <<"fetch_ohlcv">>
        /\ stats_24h = None
        /\ pfa_indicators = None
        /\ pfa_aggregation = None
        /\ pfa_targets = None

\* A fetch that succeeded with 49 candles.
C4_Witness ==
    /\ Finished
    /\ "error" \notin DOMAIN ohlcv_data
    /\ ohlcv_data.candle_count = 49
    /\ pfa_result.error = "Insufficient candle data for analysis"
    /\ pfa_steps = <<"fetch_ohlcv">>

StatsFailed ==
    /\ Finished
    /\ stats_24h # None
    /\ "error" \in DOMAIN stats_24h

\* The statistics record of a supplier that answers in full.
StatsInFull ==
    get_24h_stats(pfa_args.symbol,
        CHOOSE a \in StatsAnswers :
            "json" \in DOMAIN a /\ "VOLUME24HOUR" \in DOMAIN a.json)

\* The result of the same run had the statistics fetch succeeded (340-384).
ResultWithStats ==
    SuccessRecord(pfa_args.symbol, pfa_args.timeframe, ohlcv_data,
        StatsInFull, pfa_indicators, pfa_aggregation, pfa_targets,
        pfa_result.narrative)

\* C5: when the 24h-stats fetch fails after a candle fetch of at least 50
\* candles, the call still returns a success result, whose change_24h_pct,
\* volume_24h, high_24h and low_24h are 0 and whose indicators, verdict and
\* trade_targets are those of the run with successful statistics.
C5_StatsFailureNonFatal ==
    StatsFailed =>
        /\ IsSuccessResult(pfa_result)
        /\ pfa_result.market_data.change_24h_pct = I(0)
        /\ pfa_result.market_data.volume_24h = I(0)
        /\ pfa_result.market_data.high_24h = I(0)
        /\ pfa_result.market_data.low_24h = I(0)
        /\ pfa_result.indicators = ResultWithStats.indicators
        /\ pfa_result.verdict = ResultWithStats.verdict
        /\ pfa_result.trade_targets = ResultWithStats.trade_targets

\* Failed statistics after candles whose last twenty closes differ: the
\* result is a success with the four fields at 0.
C5_Witness ==
    /\ StatsFailed
    /\ IsSuccessResult(pfa_result)
    /\ pfa_result.market_data.volume_24h = I(0)
    /\ pfa_result.market_data.high_24h = I(0)
    /\ pfa_result.verdict = ResultWithStats.verdict
    /\ ResultWithStats.market_data.high_24h = I(104)

Succeeded == Finished /\ IsSuccessResult(pfa_result)

\* The four components of the claim, read from the result itself: the
\* volume ratio and the ADX value of its indicators (1 and 0 when the
\* record lacks them), and the alignment and confidence of its aggregation.
C15_Components ==
    << QMin(I(100),
            QMul(Get(pfa_result.indicators.volume, "ratio", I(1)), I(50))),
       QMin(I(100),
            QMul(Get(pfa_result.indicators.trend.adx, "value", I(0)), I(2))),
       pfa_result.signal_aggregation.signal_alignment,
       I(pfa_result.signal_aggregation.confidence) >>

C15_Mean ==
    QDiv(QAdd(QAdd(C15_Components[1], C15_Components[2]),
              QAdd(C15_Components[3], C15_Components[4])), I(4))

C15_InRange(x) == QLe(I(0), x) /\ QLe(x, I(100))

\* C15, as stated: in every success result the quality score is the
\* unweighted mean of the four components, each of them lies in [0, 100],
\* and so does the score.
C15_QualityMeanExact ==
    Succeeded =>
        /\ pfa_result.verdict.quality_score = C15_Mean
        /\ \A i \in 1..4 : C15_InRange(C15_Components[i])
        /\ C15_InRange(pfa_result.verdict.quality_score)

\* C15, amended: the quality score is that mean rounded to one decimal
\* place.
C15_QualityMeanRounded ==
    Succeeded =>
        /\ pfa_result.verdict.quality_score = Round(C15_Mean, 1)
        /\ \A i \in 1..4 : C15_InRange(C15_Components[i])
        /\ C15_InRange(pfa_result.verdict.quality_score)

\* A success result whose volume ratio of 2.33 and ADX of 100 are both
\* capped at 100: the mean of 100, 100, 66.7 and 66 is returned as 83.2.
C15_Witness ==
    /\ Succeeded
    /\ pfa_result.indicators.volume.ratio = Q(233, 100)
    /\ C15_Components = <<I(100), I(100), Q(667, 10), I(66)>>
    /\ pfa_result.verdict.quality_score = Q(832, 10)

\* A number: a rational, not None.
C26_IsNumber(x) == DOMAIN x = {1, 2}

C26_LevelKeys ==
    {"entry_low", "entry_high", "target_low", "target_high", "stop_loss"}

\* The record carries the entry, target and stop levels as numbers.
C26_HasLevels(t) ==
    /\ C26_LevelKeys \subseteq DOMAIN t
    /\ \A k \in C26_LevelKeys : C26_IsNumber(t[k])

C26_Agree(verdict, aggregation, targets) ==
    /\ verdict.direction = aggregation.direction
    /\ verdict.direction = targets.direction
    /\ verdict.confidence = aggregation.confidence
    /\ C26_HasLevels(targets) <=> verdict.direction \in {"UP", "DOWN"}
    /\ targets = NeutralTargets <=> verdict.direction = "NEUTRAL"
    /\ C26_HasLevels(targets) \/ targets = NeutralTargets

\* C26: in every success result of perform_full_analysis the parts agree:
\* verdict.direction equals signal_aggregation.direction and
\* trade_targets.direction, verdict.confidence equals
\* signal_aggregation.confidence, and trade_targets carries numeric entry,
\* target and stop levels exactly when verdict.direction is UP or DOWN, and
\* is the null record exactly when it is NEUTRAL.
C26_PartsAgree ==
    Succeeded =>
        C26_Agree(pfa_result.verdict, pfa_result.signal_aggregation,
                  pfa_result.trade_targets)

\* A success result with a NEUTRAL verdict and the null record.
C26_Witness ==
    /\ Succeeded
    /\ pfa_result.verdict.direction = "NEUTRAL"
    /\ pfa_result.signal_aggregation.direction = "NEUTRAL"
    /\ pfa_result.trade_targets = NeutralTargets

\* A success result with an UP verdict and levels.
C26_Directed ==
    /\ Succeeded
    /\ pfa_result.verdict.direction = "UP"
    /\ pfa_result.verdict.confidence = pfa_result.signal_aggregation.confidence
    /\ C26_HasLevels(pfa_result.trade_targets)

----------------------------------------------------------------------------
(* Claims about quick_market_scan, checked under SpecScan.                 *)

\* The number of symbols requested: the pieces between the commas.
Requested == 1 + Cardinality({i \in 1..Len(symbols) : symbols[i] = ","})

IsErrorEntry(e) == Len(e) = 4 /\ e[1] = "-" /\ e[3] = "Unable to analyze"

IsDirectionEntry(e) ==
    /\ Len(e) = 6
    /\ e[1] \in {"green", "red", "white"}
    /\ e[3] \in {"UP", "DOWN", "NEUTRAL"}
    /\ e[4] \in 0..100

\* C6: the output is produced only after every task has completed and holds
\* exactly one entry per analysed symbol (the first five requested), in
\* order: an error entry for a symbol whose fetch failed, a
\* direction/confidence entry for one analysed with success, each entry
\* being what the symbol's own analysis of its own answer gives, whatever
\* the order of completion and whatever the other tasks met.
C6_OneEntryPerSymbol ==
    response # None =>
        /\ \A i \in 1..Len(tasks) : tasks[i].pc = "done"
        /\ DOMAIN response = {"header", "entries"}
        /\ Len(symbol_list) = IMin(5, Requested)
        /\ Len(tasks) = Len(symbol_list)
        /\ Len(response.entries) = Len(symbol_list)
        /\ \A k \in 1..Len(symbol_list) :
              LET e == response.entries[k]
              IN  /\ e[2] = symbol_list[k]
                  /\ IsErrorEntry(e) \/ IsDirectionEntry(e)
                  /\ "raise" \in DOMAIN tasks[k].answer => IsErrorEntry(e)
                  /\ IsErrorEntry(e) <=> "error" \in DOMAIN tasks[k].result
                  /\ e = ScanEntry(QuickResult(symbol_list[k], tasks[k].answer))

\* Six symbols requested, five analysed: the first fetch failed, the second
\* analysis raised on a flat series, the third succeeded.
C6_Witness ==
    /\ response # None
    /\ Requested = 6
    /\ Len(response.entries) = 5
    /\ "raise" \in DOMAIN tasks[1].answer
    /\ IsErrorEntry(response.entries[1])
    /\ IsErrorEntry(response.entries[2])
    /\ response.entries[2][4] = "float division by zero"
    /\ IsDirectionEntry(response.entries[3])
    /\ response.entries[3][2] = "SOL/USDT"

\* What one analysis meets, from the supplier's answer on: what the fetch
\* gives, the candles and the indicators computed from them.
C19_Fetched(s, a) == fetch_ohlcv(s, "1H", a)

C19_Candles(s, a) == Get(C19_Fetched(s, a), "candles", <<>>)

C19_Fails(s, a) ==
    \/ "error" \in DOMAIN C19_Fetched(s, a)
    \/ Len(C19_Candles(s, a)) < 20
    \/ IsRaised(calculate_all_indicators(C19_Candles(s, a)))

C19_Expected(s, a) ==
    IF C19_Fails(s, a) THEN [failed |-> TRUE]
    ELSE [failed     |-> FALSE,
          price      |-> Last(C19_Candles(s, a)).close,
          direction  |-> aggregate_signals(
                            calculate_all_indicators(C19_Candles(s, a))).direction,
          confidence |-> aggregate_signals(
                            calculate_all_indicators(C19_Candles(s, a))).confidence]

\* The same over the symbols and answers of the scan, computed once.
C19_Table == [s \in ScanSymbols, a \in ScanAnswers |-> C19_Expected(s, a)]

C19_Shape(symbol, result, expected) ==
    /\ ~IsRaised(result)
    /\ result.symbol = symbol
    /\ IF expected.failed
       THEN DOMAIN result = {"symbol", "error"}
       ELSE /\ DOMAIN result =
                  {"symbol", "price", "direction", "confidence", "rsi"}
            /\ result.price = expected.price
            /\ result.direction = expected.direction
            /\ result.confidence = expected.confidence

\* C19: get_quick_analysis never raises and returns exactly one of two
\* shapes: {symbol, error} when the candle fetch reports an error, yields
\* fewer than 20 candles, or a step raises; otherwise {symbol, price,
\* direction, confidence, rsi}, where price is the last candle's close and
\* direction and confidence are those aggregate_signals gives for the
\* indicators of the fetched candles.
C19_TwoShapes ==
    \A i \in 1..Len(tasks) :
        tasks[i].pc = "done" =>
            C19_Shape(symbol_list[i], tasks[i].result,
                      C19_Table[symbol_list[i], tasks[i].answer])

\* One scan met all four cases: a failed fetch, 19 candles, a flat series
\* on which the Bollinger step raises, and a rising series analysed whole.
C19_Witness ==
    /\ Len(tasks) = 5
    /\ \A i \in 1..4 : tasks[i].pc = "done"
    /\ tasks[1].answer = [raise |-> "TimeoutError"]
    /\ DOMAIN tasks[1].result = {"symbol", "error"}
    /\ tasks[2].result = [symbol |-> "ETH/USDT", error |-> "Insufficient data"]
    /\ tasks[3].result =
          [symbol |-> "SOL/USDT", error |-> "float division by zero"]
    /\ tasks[4].answer = OkAnswer(RawSeries(20, << <<4, 0, 4, 10>> >>))
    /\ DOMAIN tasks[4].result =
          {"symbol", "price", "direction", "confidence", "rsi"}
    /\ tasks[4].result.price = Last(tasks[4].answer.json.Data.items).close
    /\ tasks[4].result.direction \in {"UP", "DOWN"}

----------------------------------------------------------------------------
(* Claims about the moving averages, checked under SpecAvg.                *)

AvgCalled(name) == calc # None /\ calc.name = name

AvgSeriesIn == Column(calc_candles, "close")

RECURSIVE AvgTotal(_)
AvgTotal(seq) ==
    IF seq = <<>> THEN I(0) ELSE QAdd(Head(seq), AvgTotal(Tail(seq)))

\* The arithmetic mean of a sequence that is not empty.
AvgMean(seq) == QDiv(AvgTotal(seq), I(Len(seq)))

C21_Means(series, period, out) ==
    IF Len(series) < period THEN out = <<>>
    ELSE /\ Len(out) = Len(series) - period + 1
         /\ \A k \in 1..Len(out) :
               out[k] = AvgMean(SubSeq(series, k, k + period - 1))

\* C21: calculate_sma(series, period) returns the empty list when
\* len(series) < period, and otherwise a list of exactly
\* len(series) - period + 1 values whose k-th element is the arithmetic mean
\* of series[k .. k+period-1]; series [1,2,3,4,5] with period 3 gives
\* [2,3,4].
C21_SimpleMovingAverage ==
    AvgCalled("calculate_sma") =>
        /\ C21_Means(AvgSeriesIn, calc.period, calc.out)
        /\ (AvgSeriesIn = <<I(1), I(2), I(3), I(4), I(5)>> /\ calc.period = 3)
              => calc.out = <<I(2), I(3), I(4)>>

\* The example of the claim.
C21_Witness ==
    /\ AvgCalled("calculate_sma")
    /\ AvgSeriesIn = <<I(1), I(2), I(3), I(4), I(5)>>
    /\ calc.period = 3
    /\ calc.out = <<I(2), I(3), I(4)>>

\* A series one shorter than the period gives the empty list, and a series
\* as long as the period gives its one mean.
C21_Short ==
    /\ AvgCalled("calculate_sma")
    /\ Len(AvgSeriesIn) = 3
    /\ calc.period = 4
    /\ calc.out = <<>>

C21_OneWindow ==
    /\ AvgCalled("calculate_sma")
    /\ AvgSeriesIn = <<I(1), I(4), Q(5, 2)>>
    /\ calc.period = 3
    /\ calc.out = <<Q(5, 2)>>

C22_Steps(series, period, out) ==
    IF Len(series) < period THEN out = <<>>
    ELSE /\ Len(out) = Len(series) - period + 1
         /\ out[1] = calculate_sma(series, period)[1]
         /\ out[1] = AvgMean(SubSeq(series, 1, period))
         /\ \A j \in 2..Len(out) :
               out[j] = QAdd(QMul(QSub(series[period + j - 1], out[j - 1]),
                                  Q(2, period + 1)),
                             out[j - 1])

\* C22: calculate_ema(series, period) returns the empty list when
\* len(series) < period; otherwise its first element equals the first
\* element of calculate_sma(series, period) (the mean of the first period
\* values), each later element is (x[t] - prev) * 2/(period+1) + prev for
\* the next input value x[t], and the output has exactly
\* len(series) - period + 1 elements.
C22_ExponentialMovingAverage ==
    AvgCalled("calculate_ema") => C22_Steps(AvgSeriesIn, calc.period, calc.out)

\* Period 2 on 1, 4, 5/2, 1: the seed 5/2, then two steps of weight 2/3.
C22_Witness ==
    /\ AvgCalled("calculate_ema")
    /\ AvgSeriesIn = <<I(1), I(4), Q(5, 2), I(1)>>
    /\ calc.period = 2
    /\ calc.out = <<Q(5, 2), Q(5, 2), Q(3, 2)>>

C22_Short ==
    /\ AvgCalled("calculate_ema")
    /\ Len(AvgSeriesIn) = 3
    /\ calc.period = 4
    /\ calc.out = <<>>

----------------------------------------------------------------------------
(* Claims about analyze_trading_pair, checked under SpecTool.              *)

\* The places of the log where a message of the topic was published, where
\* perform_full_analysis was called and where it returned.
C28_Published(topic) ==
    {i \in 1..Len(tool_log) :
        /\ tool_log[i].event = "published"
        /\ tool_log[i].message.topic = topic}

C28_Failed ==
    {i \in 1..Len(tool_log) : tool_log[i].event = "publish_failed"}

C28_Called ==
    {i \in 1..Len(tool_log) : tool_log[i].event = "analysis_called"}

C28_Returned ==
    {i \in 1..Len(tool_log) : tool_log[i].event = "analysis_returned"}

C28_Done == tool_pc = "done"

\* C28: in analyze_trading_pair with a room set the status events are
\* ordered: the 'started' analysis_status message is published before
\* perform_full_analysis begins; an analysis_data message is published only
\* after perform_full_analysis returned a success result and never when it
\* returned an error; at most one message of each kind is published per
\* call; and a failure of either publish does not prevent the analysis from
\* running or change the text returned to the caller.
C28_EventsOrdered ==
    room # None =>
        /\ \A i \in C28_Published("analysis_status") :
              /\ tool_log[i].message.status = "started"
              /\ \A j \in C28_Called : i < j
        /\ tool_pc \in {"idle", "publish_started"} => pfa_pc = "idle"
        /\ \A i \in C28_Published("analysis_data") :
              /\ \E j \in C28_Returned : j < i /\ tool_log[j].success
              /\ IsSuccessResult(pfa_result)
        /\ (Finished /\ IsErrorResult(pfa_result))
              => C28_Published("analysis_data") = {}
        /\ Cardinality(C28_Published("analysis_status")) <= 1
        /\ Cardinality(C28_Published("analysis_data")) <= 1
        /\ C28_Done =>
              /\ Cardinality(C28_Called) = 1
              /\ Finished
              /\ tool_text = ToolText(tool_args.symbol, pfa_result)
              /\ pfa_args = tool_args

\* A call whose start publish failed and whose data publish succeeded: the
\* analysis ran, its data were published after it returned, and the
\* response is returned.
C28_Witness ==
    /\ room # None
    /\ C28_Done
    /\ Len(tool_log) = 4
    /\ tool_log[1].event = "publish_failed"
    /\ tool_log[2].event = "analysis_called"
    /\ tool_log[3] = [event |-> "analysis_returned", success |-> TRUE]
    /\ tool_log[4].event = "published"
    /\ tool_log[4].message.topic = "analysis_data"
    /\ tool_text[1] = "Analysis complete for"

\* Both publishes failed, and both succeeded; an analysis that returned an
\* error after a published start.
C28_BothFailed ==
    /\ room # None
    /\ C28_Done
    /\ Cardinality(C28_Failed) = 2
    /\ tool_text[1] = "Analysis complete for"

C28_BothPublished ==
    /\ C28_Done
    /\ Cardinality(C28_Published("analysis_status")) = 1
    /\ Cardinality(C28_Published("analysis_data")) = 1

C28_ErrorAfterStart ==
    /\ C28_Done
    /\ Cardinality(C28_Published("analysis_status")) = 1
    /\ IsErrorResult(pfa_result)
    /\ tool_text[1] = "Analysis failed for"
    /\ Len(tool_log) = 3

\* Without a room nothing is published.
C28_NoRoom ==
    /\ room = None
    /\ C28_Done
    /\ \A i \in 1..Len(tool_log) :
          tool_log[i].event \in {"analysis_called", "analysis_returned"}

----------------------------------------------------------------------------
(* Claims about both entry points of the core, checked under SpecCore.     *)

\* How many times a step was begun.
C20_Begun(step) ==
    Cardinality({k \in 1..Len(pfa_steps) : pfa_steps[k] = step})

\* C20: the core performs no retries: in one invocation of
\* perform_full_analysis the candle fetch is called exactly once and the
\* 24h-stats fetch at most once, and in one invocation of
\* get_quick_analysis the candle fetch is called exactly once, whether those
\* calls succeed or fail.
C20_NoRetries ==
    /\ pfa_pc # "idle" =>
          /\ C20_Begun("fetch_ohlcv") = 1
          /\ C20_Begun("get_24h_stats") <= 1
          /\ FetchFailed => C20_Begun("get_24h_stats") = 0
    /\ \A i \in 1..Len(tasks) :
          tasks[i].pc # "created" => tasks[i].fetches = 1

\* A full analysis whose candle fetch failed has returned after that one
\* fetch.
C20_Witness ==
    /\ Finished
    /\ FetchFailed
    /\ pfa_steps = <<"fetch_ohlcv">>
    /\ IsErrorResult(pfa_result)

\* A full analysis whose stats fetch failed, and a quick analysis whose
\* fetch failed, have returned after one call of each.
C20_StatsFailedOnce ==
    /\ Finished
    /\ StatsFailed
    /\ C20_Begun("fetch_ohlcv") = 1
    /\ C20_Begun("get_24h_stats") = 1

C20_QuickFailedOnce ==
    /\ Len(tasks) >= 1
    /\ tasks[1].pc = "done"
    /\ "raise" \in DOMAIN tasks[1].answer
    /\ tasks[1].fetches = 1

\* The fields of an aggregation the claim speaks of.
C11_Fields ==
    {"direction", "confidence", "up_signals", "down_signals",
     "neutral_signals", "up_score", "down_score", "signal_alignment"}

C11_Counts == {"up_signals", "down_signals", "neutral_signals"}

C11_Same(keys) ==
    \A k \in keys : agg_out[k] = aggregate_signals(agg_in)[k]

C27_Covered ==
    \A n \in DOMAIN weights : n \in DOMAIN agg_in => IsDict(agg_in[n])

\* The weighted entries that are absent or are a record without a signal.
C27_Silent ==
    {n \in DOMAIN weights :
        n \notin DOMAIN agg_in
          \/ (IsDict(agg_in[n]) /\ "signal" \notin DOMAIN agg_in[n])}

C27_Count ==
    agg_out.up_signals + agg_out.down_signals + agg_out.neutral_signals

\* The entries counted in a score: those with a signal of its bucket.
C27_Scored(bucket) ==
    {n \in DOMAIN weights \ C27_Silent :
        IsDict(agg_in[n]) /\ agg_in[n].signal \in bucket}

\* C27: for a mapping whose nine weighted entries are each a record or
\* absent, aggregate_signals classifies exactly nine signals (up_signals +
\* down_signals + neutral_signals = 9); an absent entry or one without a
\* signal is counted in the neutral bucket and adds nothing to either
\* score; the total is 0, and signal_alignment its default 50, only when
\* none of the nine entries is a record.
C27_NineSignals ==
    Returned =>
        /\ C27_Covered =>
              /\ C27_Count = 9
              /\ Len(agg_out.up_details) = agg_out.up_signals
              /\ Len(agg_out.down_details) = agg_out.down_signals
              /\ Len(agg_out.neutral_details) = agg_out.neutral_signals
        /\ C27_Silent \subseteq C10_Names(agg_out.neutral_details)
        /\ U10 = C10_Sum10(C27_Scored(UpBucket))
        /\ D10 = C10_Sum10(C27_Scored(DownBucket))
        /\ C27_Count = 0 =>
              /\ agg_out.signal_alignment = I(50)
              /\ \A n \in DOMAIN weights :
                    n \in DOMAIN agg_in /\ ~IsDict(agg_in[n])

\* One record without a signal, one with the signal UP, seven entries
\* absent: nine signals, eight of them neutral, and only the UP record in
\* a score.
C27_Witness ==
    /\ Returned
    /\ C27_Covered
    /\ Cardinality(DOMAIN agg_in) = 2
    /\ Cardinality(C27_Silent) = 8
    /\ \E n \in C27_Silent : n \in DOMAIN agg_in /\ agg_in[n] = [strength |-> 100]
    /\ C27_Count = 9
    /\ agg_out.neutral_signals = 8
    /\ agg_out.up_signals = 1
    /\ D10 = 0

\* No entry is a record: nothing is classified and the alignment is 50.
C27_NoRecord ==
    /\ Returned
    /\ C27_Count = 0
    /\ agg_out.signal_alignment = I(50)

\* One entry is not a record: eight signals are classified.
C27_NotCovered ==
    /\ Returned
    /\ ~C27_Covered
    /\ C27_Count = 8

\* The number of signals aggregate_signals classified, and the size of the
\* bucket of the direction it returned.
C12_Total ==
    agg_out.up_signals + agg_out.down_signals + agg_out.neutral_signals

C12_Bucket ==
    IF agg_out.direction = "UP" THEN agg_out.up_signals
    ELSE IF agg_out.direction = "DOWN" THEN agg_out.down_signals
    ELSE agg_out.neutral_signals

\* C12, as stated: signal_alignment is 100 * (size of the bucket of the
\* returned direction) / (number of classified signals), is 50 when no
\* signal was classified, and lies in [0, 100].
C12_AlignmentExact ==
    Returned =>
        /\ C12_Total = 0 => agg_out.signal_alignment = I(50)
        /\ C12_Total > 0 =>
              agg_out.signal_alignment = Q(100 * C12_Bucket, C12_Total)
        /\ QLe(I(0), agg_out.signal_alignment)
        /\ QLe(agg_out.signal_alignment, I(100))

\* C12, amended: signal_alignment is that quotient rounded to one decimal
\* place, is 50 when no signal was classified, and lies in [0, 100].
C12_AlignmentRounded ==
    Returned =>
        /\ C12_Total = 0 => agg_out.signal_alignment = I(50)
        /\ C12_Total > 0 =>
              agg_out.signal_alignment
                  = Round(Q(100 * C12_Bucket, C12_Total), 1)
        /\ QLe(I(0), agg_out.signal_alignment)
        /\ QLe(agg_out.signal_alignment, I(100))

\* A DOWN verdict carried by two of nine signals: 100 * 2 / 9 is returned
\* as 22.2.
C12_Witness ==
    /\ Returned
    /\ agg_out.direction = "DOWN"
    /\ agg_out.down_signals = 2
    /\ C12_Total = 9
    /\ agg_out.signal_alignment = Q(222, 10)

\* No signal classified: the default of 50.
C12_NoneClassified == Returned /\ C12_Total = 0

============================================================================
